---- MODULE Spec2Model ----
(***************************************************************************)
(* The NeuroGlyph protocol engine of HyRI (src/src/HiRI.py): the token     *)
(* registry, the regex tokenizer, the validator and the formatter of       *)
(* NeuroGlyphParser, and the conversation history and active context of    *)
(* ConversationEngine.                                                     *)
(*                                                                         *)
(* A text is a sequence of code points.  An ASCII code point is written as *)
(* the one-character string, every other one as "U+<hex>".  A canonical    *)
(* identifier such as /act is the sequence <<"/", "a", "c", "t">>.  A      *)
(* Python dict is the sequence of its <<key, value>> items in insertion    *)
(* order, with unique keys.                                                *)
(***************************************************************************)
EXTENDS Integers, Sequences, FiniteSets, TLC

VARIABLES
  \* a call of the parser: its position, arguments and results
  pc, text, tokens, use_emojis, message, validation,
  \* the fields of a ConversationEngine, and the call it served last;
  \* shared_with is the position in conversation_history of the message
  \* whose tokens dict is the very object active_context names, 0 when
  \* active_context names a dict of its own
  conversation_history, active_context, shared_with, last_call,
  \* the fields of a second ConversationEngine
  second_history, second_context, second_shared_with,
  \* the file save_conversation writes and load_conversation reads
  file, hyri, model_errors, loop, session_state

parser_vars == <<pc, text, tokens, use_emojis, message, validation>>

engine_vars == <<conversation_history, active_context, shared_with, last_call>>

second_vars == <<second_history, second_context, second_shared_with>>

app_vars == <<file, hyri, model_errors, loop, session_state>>

vars == <<parser_vars, engine_vars, second_vars, app_vars>>

None == "None"

(***************************************************************************)
(* Python dict operations on item sequences.                               *)
(***************************************************************************)
Keys(d) == {d[i][1] : i \in 1..Len(d)}

HasKey(d, k) == \E i \in 1..Len(d) : d[i][1] = k

KeyIndex(d, k) == CHOOSE i \in 1..Len(d) : d[i][1] = k

DictGet(d, k, default) == IF HasKey(d, k) THEN d[KeyIndex(d, k)][2] ELSE default

\* d[k] = v : an existing key keeps its position, a new key goes last
DictSet(d, k, v) ==
  IF HasKey(d, k)
    THEN [d EXCEPT ![KeyIndex(d, k)] = <<k, v>>]
    ELSE Append(d, <<k, v>>)

Min(S) == CHOOSE x \in S : \A y \in S : x <= y

\* a dict that would keep what was stored first for a key
DictOf_first_definition_wins(items) ==
  LET first == {i \in 1..Len(items) :
                  \A j \in 1..(i - 1) : items[j][1] # items[i][1]}
      nth(n) == CHOOSE i \in first : Cardinality({j \in first : j < i}) = n - 1
  IN  [n \in 1..Cardinality(first) |-> items[nth(n)]]

\* a dict display or comprehension, its items stored one after another: a
\* key stands where it was first stored and holds what was stored last
DictOf(items) ==
  LET first == {i \in 1..Len(items) :
                  \A j \in 1..(i - 1) : items[j][1] # items[i][1]}
      nth(n) == CHOOSE i \in first : Cardinality({j \in first : j < i}) = n - 1
      last(k) == CHOOSE i \in 1..Len(items) :
                   /\ items[i][1] = k
                   /\ \A j \in (i + 1)..Len(items) : items[j][1] # k
  IN  [n \in 1..Cardinality(first) |->
         <<items[nth(n)][1], items[last(items[nth(n)][1])][2]>>]

(***************************************************************************)
(* NeuroGlyphParser.CORE_TOKENS, as the source writes the dict display:    *)
(* 46 items, the symbols U+1F3AF, U+1F504 and U+1F50D written more than    *)
(* once.                                                                   *)
(***************************************************************************)
CORE_TOKENS_display ==
  << <<<<"U+1F680">>, <<"/", "a", "c", "t">>>>,
     <<<<"U+1F4DA">>, <<"/", "f", "o", "c", "u", "s">>>>,
     <<<<"U+1F9E0">>, <<"/", "m", "i", "n", "d">>>>,
     <<<<"U+1F3AF">>, <<"/", "c", "o", "n", "t", "e", "x", "t">>>>,
     <<<<"U+1F4A1">>, <<"/", "i", "n", "t", "e", "n", "t">>>>,
     <<<<"U+1F4E6">>, <<"/", "d", "e", "l", "i", "v", "e", "r", "a", "b", "l", "e">>>>,
     <<<<"U+23F0">>, <<"/", "t", "i", "m", "e", "l", "i", "n", "e">>>>,
     <<<<"U+1F525">>, <<"/", "p", "u", "l", "s", "e">>>>,
     <<<<"U+1F3D4", "U+FE0F">>, <<"/", "g", "l", "i", "p", "h">>>>,
     <<<<"U+1F517">>, <<"/", "r", "e", "l", "a", "t", "i", "o", "n">>>>,
     <<<<"U+1F310">>, <<"/", "n", "e", "t", "w", "o", "r", "k">>>>,
     <<<<"U+1F504">>, <<"/", "c", "o", "m", "p", "o", "s", "e">>>>,
     <<<<"U+1F50D">>, <<"/", "z", "o", "o", "m">>>>,
     <<<<"U+1F39B", "U+FE0F">>, <<"/", "s", "w", "i", "t", "c", "h", "_", "c", "o", "n", "t", "e", "x", "t">>>>,
     <<<<"U+26D3", "U+FE0F">>, <<"/", "c", "h", "a", "i", "n">>>>,
     <<<<"U+1F4E2">>, <<"/", "e", "c", "h", "o">>>>,
     <<<<"U+1F527">>, <<"/", "r", "e", "s", "o", "l", "v", "e">>>>,
     <<<<"U+1F4DD">>, <<"/", "n", "o", "t", "e">>>>,
     <<<<"U+1F4CA">>, <<"/", "m", "e", "t", "r", "i", "c">>>>,
     <<<<"U+1F4E1">>, <<"/", "c", "h", "a", "n", "n", "e", "l">>>>,
     <<<<"U+1F465">>, <<"/", "c", "o", "l", "l", "e", "c", "t", "i", "v", "e">>>>,
     <<<<"U+1F3AD">>, <<"/", "r", "o", "l", "e">>>>,
     <<<<"U+1F3DB", "U+FE0F">>, <<"/", "g", "o", "v", "e", "r", "n">>>>,
     <<<<"U+1F4CB">>, <<"/", "n", "o", "r", "m">>>>,
     <<<<"U+1F4B0">>, <<"/", "r", "e", "s", "o", "u", "r", "c", "e">>>>,
     <<<<"U+1F91D">>, <<"/", "t", "r", "u", "s", "t">>>>,
     <<<<"U+1F3AF">>, <<"/", "g", "o", "a", "l">>>>,
     <<<<"U+26A1">>, <<"/", "t", "r", "i", "g", "g", "e", "r">>>>,
     <<<<"U+1F3A8">>, <<"/", "p", "a", "l", "e", "t", "t", "e">>>>,
     <<<<"U+1F464">>, <<"/", "c", "h", "a", "r", "a", "c", "t", "e", "r">>>>,
     <<<<"U+1F30D">>, <<"/", "s", "e", "t", "t", "i", "n", "g">>>>,
     <<<<"U+1F4D6">>, <<"/", "l", "o", "r", "e">>>>,
     <<<<"U+1F3B2">>, <<"/", "t", "u", "r", "n">>>>,
     <<<<"U+1F331">>, <<"/", "s", "e", "e", "d">>>>,
     <<<<"U+1F3B5">>, <<"/", "m", "o", "t", "i", "f">>>>,
     <<<<"U+1F3D7", "U+FE0F">>, <<"/", "s", "t", "r", "u", "c", "t", "u", "r", "e">>>>,
     <<<<"U+1F441", "U+FE0F">>, <<"/", "p", "o", "v">>>>,
     <<<<"U+2728">>, <<"/", "f", "l", "o", "u", "r", "i", "s", "h">>>>,
     <<<<"U+2753">>, <<"/", "q", "u", "e", "r", "y">>>>,
     <<<<"U+1F504">>, <<"/", "o", "n", "g", "o", "i", "n", "g">>>>,
     <<<<"U+1F309">>, <<"/", "b", "r", "i", "d", "g", "e">>>>,
     <<<<"U+2696", "U+FE0F">>, <<"/", "d", "i", "a", "l", "e", "c", "t", "i", "c">>>>,
     <<<<"U+1F9E0", "U+1F9E0">>, <<"/", "m", "e", "t", "a">>>>,
     <<<<"U+1F4C4">>, <<"/", "s", "o", "u", "r", "c", "e">>>>,
     <<<<"U+1F504">>, <<"/", "t", "r", "a", "n", "s", "f", "o", "r", "m">>>>,
     <<<<"U+1F50D">>, <<"/", "i", "n", "t", "r", "o", "s", "p", "e", "c", "t">>>> >>

CORE_TOKENS == DictOf(CORE_TOKENS_display)

\* {v: k for k, v in CORE_TOKENS.items()}
SLASH_TO_EMOJI ==
  DictOf([i \in 1..Len(CORE_TOKENS) |-> <<CORE_TOKENS[i][2], CORE_TOKENS[i][1]>>])

(***************************************************************************)
(* The code points of the character class of token_pattern.  A class holds *)
(* single code points: of a symbol written with two code points it holds   *)
(* each one, the variation selector U+FE0F included.                       *)
(***************************************************************************)
TokenClass ==
  { "U+1F680", "U+1F4DA", "U+1F9E0", "U+1F3AF", "U+1F4A1", "U+1F4E6",
    "U+23F0", "U+1F525", "U+1F3D4", "U+FE0F", "U+1F517", "U+1F310",
    "U+1F504", "U+1F50D", "U+1F39B", "U+26D3", "U+1F4E2", "U+1F527",
    "U+1F4DD", "U+1F4CA", "U+1F4E1", "U+1F465", "U+1F3AD", "U+1F3DB",
    "U+1F4CB", "U+1F4B0", "U+1F91D", "U+26A1", "U+1F3A8", "U+1F464",
    "U+1F30D", "U+1F4D6", "U+1F3B2", "U+1F331", "U+1F3B5", "U+1F3D7",
    "U+1F441", "U+2728", "U+2753", "U+1F309", "U+2696", "U+1F4C4" }

\* \w and \s of Python's re, and the characters str.strip() removes,
\* restricted to the code points the texts of this model are made of
WordChars ==
  { "a", "b", "c", "d", "e", "f", "g", "h", "i", "j", "k", "l", "m",
    "n", "o", "p", "q", "r", "s", "t", "u", "v", "w", "x", "y", "z", "_" }

Whitespace == { " ", "\t", "\n", "\r" }

IsTokenClass(c) == c \in TokenClass

IsWord(c) == c \in WordChars

IsSpace(c) == c \in Whitespace

(***************************************************************************)
(* The canonical identifiers the code names.                               *)
(***************************************************************************)
act == <<"/", "a", "c", "t">>

intent == <<"/", "i", "n", "t", "e", "n", "t">>

context == <<"/", "c", "o", "n", "t", "e", "x", "t">>

deliverable == <<"/", "d", "e", "l", "i", "v", "e", "r", "a", "b", "l", "e">>

query == <<"/", "q", "u", "e", "r", "y">>

resolve == <<"/", "r", "e", "s", "o", "l", "v", "e">>

ErrIntent == "Action requires /intent declaration"

ErrContext == "Action requires /context declaration"

WarnDeliverable == "Interactive tokens should specify expected /deliverable"

(***************************************************************************)
(* token_pattern, compiled with re.DOTALL | re.MULTILINE:                  *)
(*   ([class]|/\w+):\s*(.+?)(?=\n[class]|/\w+:|$)                          *)
(* Positions are 1-based; an end position is the first one after the run.  *)
(***************************************************************************)
\* \w+ from position j, greedy: the first position that is not a word
\* character
WordRunEnd(txt, j) ==
  Min({e \in j..(Len(txt) + 1) : e = Len(txt) + 1 \/ ~IsWord(txt[e])})

\* \s* from position j, greedy
SpaceRunEnd(txt, j) ==
  Min({e \in j..(Len(txt) + 1) : e = Len(txt) + 1 \/ ~IsSpace(txt[e])})

\* group 1 with the slash of /\w+ left out of the pattern
TokenEnd_no_slash(txt, p) ==
  IF p <= Len(txt) /\ IsTokenClass(txt[p]) THEN p + 1
  ELSE IF p <= Len(txt) /\ WordRunEnd(txt, p) > p
    THEN WordRunEnd(txt, p)
  ELSE 0

\* group 1, ([class]|/\w+), at position p: its end, or 0 when it does not
\* match.  The class takes ONE code point.
TokenEnd(txt, p) ==
  IF p <= Len(txt) /\ IsTokenClass(txt[p]) THEN p + 1
  ELSE IF p <= Len(txt) /\ txt[p] = "/" /\ WordRunEnd(txt, p + 1) > p + 1
    THEN WordRunEnd(txt, p + 1)
  ELSE 0

\* /\w+: at position e
SlashWordColonAt(txt, e) ==
  /\ e <= Len(txt)
  /\ txt[e] = "/"
  /\ WordRunEnd(txt, e + 1) > e + 1
  /\ WordRunEnd(txt, e + 1) <= Len(txt)
  /\ txt[WordRunEnd(txt, e + 1)] = ":"

\* $ under re.MULTILINE: the end of the text or just before a line break
EndOfLineAt(txt, e) == e = Len(txt) + 1 \/ txt[e] = "\n"

\* the lookahead (?=\n[class]|/\w+:|$) at position e; the alternation has
\* three branches, and only the first one asks for a line break
Lookahead(txt, e) ==
  \/ e + 1 <= Len(txt) /\ txt[e] = "\n" /\ IsTokenClass(txt[e + 1])
  \/ SlashWordColonAt(txt, e)
  \/ EndOfLineAt(txt, e)

\* (.+?) is lazy: it ends at the first position, from the one given, where
\* the lookahead holds (it always holds at the end of the text)
LazyEnd(txt, from) ==
  Min({e \in from..(Len(txt) + 1) : Lookahead(txt, e)})

NoMatch == [matched |-> FALSE]

\* one attempt of token_pattern at position p.  \s* is greedy and gives back
\* one character only when it has run to the end of the text, so that (.+?)
\* has its one character.
token_pattern_match(txt, p) ==
  LET c == TokenEnd(txt, p) IN
  IF c = 0 \/ c > Len(txt) \/ txt[c] # ":" THEN NoMatch
  ELSE
    LET s == SpaceRunEnd(txt, c + 1)
        q == IF s <= Len(txt) THEN s ELSE s - 1
    IN  IF q = c THEN NoMatch
        ELSE LET e == LazyEnd(txt, q + 1)
             IN  [matched |-> TRUE,
                  token_raw |-> SubSeq(txt, p, c - 1),
                  value |-> SubSeq(txt, q, e - 1),
                  end |-> e]

RECURSIVE token_pattern_findall(_, _)
\* token_pattern.findall(text) from position p: the matches left to right,
\* each one searched from where the one before it ends
token_pattern_findall(txt, p) ==
  LET starts == {i \in p..Len(txt) : token_pattern_match(txt, i).matched}
  IN  IF starts = {} THEN <<>>
      ELSE LET m == token_pattern_match(txt, Min(starts))
           IN  <<m>> \o token_pattern_findall(txt, m.end)

\* str.strip()
strip(s) ==
  LET kept == {i \in 1..Len(s) : ~IsSpace(s[i])}
  IN  IF kept = {} THEN <<>>
      ELSE SubSeq(s, Min(kept), CHOOSE i \in kept : \A j \in kept : j <= i)

\* validate_message without its /context rule
validate_message_no_context_rule(toks, errors) ==
  LET noIntent == HasKey(toks, act) /\ ~HasKey(toks, intent)
      noDeliverable ==
        /\ \E token \in {act, query, resolve} : HasKey(toks, token)
        /\ ~HasKey(toks, deliverable)
      e1 == IF noIntent THEN Append(errors, ErrIntent) ELSE errors
      e3 == IF noDeliverable THEN Append(e1, WarnDeliverable) ELSE e1
  IN  [is_valid |-> ~noIntent, errors |-> e3]

\* validate_message with is_valid = False under the /deliverable rule too
validate_message_warning_invalidates(toks, errors) ==
  LET noIntent == HasKey(toks, act) /\ ~HasKey(toks, intent)
      noContext == HasKey(toks, act) /\ ~HasKey(toks, context)
      noDeliverable ==
        /\ \E token \in {act, query, resolve} : HasKey(toks, token)
        /\ ~HasKey(toks, deliverable)
      e1 == IF noIntent THEN Append(errors, ErrIntent) ELSE errors
      e2 == IF noContext THEN Append(e1, ErrContext) ELSE e1
      e3 == IF noDeliverable THEN Append(e2, WarnDeliverable) ELSE e2
  IN  [is_valid |-> ~noIntent /\ ~noContext /\ ~noDeliverable, errors |-> e3]

\* validate_message with the /context rule before the /intent rule
validate_message_context_first(toks, errors) ==
  LET noIntent == HasKey(toks, act) /\ ~HasKey(toks, intent)
      noContext == HasKey(toks, act) /\ ~HasKey(toks, context)
      noDeliverable ==
        /\ \E token \in {act, query, resolve} : HasKey(toks, token)
        /\ ~HasKey(toks, deliverable)
      e1 == IF noContext THEN Append(errors, ErrContext) ELSE errors
      e2 == IF noIntent THEN Append(e1, ErrIntent) ELSE e1
      e3 == IF noDeliverable THEN Append(e2, WarnDeliverable) ELSE e2
  IN  [is_valid |-> ~noIntent /\ ~noContext, errors |-> e3]

(***************************************************************************)
(* NeuroGlyphParser.validate_message(tokens, errors): the diagnostics are  *)
(* appended to errors, is_valid is returned.                               *)
(***************************************************************************)
validate_message(toks, errors) ==
  LET noIntent == HasKey(toks, act) /\ ~HasKey(toks, intent)
      noContext == HasKey(toks, act) /\ ~HasKey(toks, context)
      noDeliverable ==
        /\ \E token \in {act, query, resolve} : HasKey(toks, token)
        /\ ~HasKey(toks, deliverable)
      e1 == IF noIntent THEN Append(errors, ErrIntent) ELSE errors
      e2 == IF noContext THEN Append(e1, ErrContext) ELSE e1
      e3 == IF noDeliverable THEN Append(e2, WarnDeliverable) ELSE e2
  IN  [is_valid |-> ~noIntent /\ ~noContext, errors |-> e3]

RECURSIVE StoreMatches_registered_only(_, _)
\* a loop that would drop the tokens the registry does not name
StoreMatches_registered_only(matches, n) ==
  IF n = 0 THEN <<>>
  ELSE IF HasKey(CORE_TOKENS, matches[n].token_raw)
    THEN DictSet(StoreMatches_registered_only(matches, n - 1),
                 DictGet(CORE_TOKENS, matches[n].token_raw, None),
                 strip(matches[n].value))
  ELSE StoreMatches_registered_only(matches, n - 1)

RECURSIVE StoreMatches(_, _)
\* the loop of parse_message over the first n matches:
\*   tokens[CORE_TOKENS.get(token_raw, token_raw)] = value.strip()
StoreMatches(matches, n) ==
  IF n = 0 THEN <<>>
  ELSE DictSet(StoreMatches(matches, n - 1),
               DictGet(CORE_TOKENS, matches[n].token_raw, matches[n].token_raw),
               strip(matches[n].value))

\* a parser that would keep the default is_valid of NeuroGlyphMessage
parse_message_keeps_default_is_valid(txt, agent, agent_type, now) ==
  LET matches == token_pattern_findall(txt, 1)
      toks == StoreMatches(matches, Len(matches))
  IN  [timestamp |-> now,
       agent |-> agent,
       agent_type |-> agent_type,
       tokens |-> toks,
       raw_text |-> txt,
       is_valid |-> TRUE,
       validation_errors |-> validate_message(toks, <<>>).errors]

\* NeuroGlyphParser.parse_message(text, agent, agent_type); timestamp is the
\* clock reading handed in as now
parse_message(txt, agent, agent_type, now) ==
  LET matches == token_pattern_findall(txt, 1)
      toks == StoreMatches(matches, Len(matches))
      v == validate_message(toks, <<>>)
  IN  [timestamp |-> now,
       agent |-> agent,
       agent_type |-> agent_type,
       tokens |-> toks,
       raw_text |-> txt,
       is_valid |-> v.is_valid,
       validation_errors |-> v.errors]

RECURSIVE JoinLines(_, _)
\* "\n".join(lines) of the first n lines
JoinLines(lines, n) ==
  IF n = 0 THEN <<>>
  ELSE IF n = 1 THEN lines[1]
  ELSE JoinLines(lines, n - 1) \o <<"\n">> \o lines[n]

\* a formatter that would write the symbol whatever use_emojis says
format_message_ignores_use_emojis(toks, emojis) ==
  LET lines == [i \in 1..Len(toks) |->
                  DictGet(SLASH_TO_EMOJI, toks[i][1], toks[i][1])
                    \o <<":", " ">> \o toks[i][2]]
  IN  JoinLines(lines, Len(lines))

\* NeuroGlyphParser.format_message(tokens, use_emojis)
format_message(toks, emojis) ==
  LET display_token(token) ==
        IF emojis /\ HasKey(SLASH_TO_EMOJI, token)
          THEN DictGet(SLASH_TO_EMOJI, token, token)
          ELSE token
      lines == [i \in 1..Len(toks) |->
                  display_token(toks[i][1]) \o <<":", " ">> \o toks[i][2]]
  IN  JoinLines(lines, Len(lines))

(***************************************************************************)
(* Bounded inputs.                                                         *)
(***************************************************************************)
MaxTextLen == 5

MaxSegments == 3

MaxValidateKeys == 4

MaxRoundTripKeys == 2

SeqsUpTo(S, n) == UNION {[1..k -> S] : k \in 0..n}

InjectiveSeqsUpTo(S, n) ==
  {s \in SeqsUpTo(S, n) : \A i, j \in 1..Len(s) : i # j => s[i] # s[j]}

\* every text of at most MaxTextLen of these code points
TextChars == { "/", "a", ":", " ", "\n", "U+1F680", "U+FE0F" }

ShortTexts == SeqsUpTo(TextChars, MaxTextLen)

\* messages written one segment per line, "<token>: <value>"
Segment(token, value) == token \o <<":", " ">> \o value

SegmentTokens ==
  { <<"U+1F680">>, <<"U+1F4A1">>, <<"U+1F3AF">>, <<"U+1F4E6">>, context }

LineValues == { <<"x">>, <<"y", " ", "z">> }

Segments == {Segment(t, v) : t \in SegmentTokens, v \in LineValues}

SegmentTexts ==
  {JoinLines(ss, Len(ss)) : ss \in SeqsUpTo(Segments, MaxSegments)}

\* the messages of the four segments U+1F680, U+1F4A1, U+1F3AF, U+1F4E6
FourSymbols == { <<"U+1F680">>, <<"U+1F4A1">>, <<"U+1F3AF">>, <<"U+1F4E6">> }

FourSegmentTexts ==
  {JoinLines(ss, 4) :
     ss \in {q \in [1..4 -> {Segment(t, v) : t \in FourSymbols, v \in LineValues}] :
               \A i, j \in 1..4 : i # j => q[i][1] # q[j][1]}}

\* one segment for every symbol of the registry
SymbolTexts == {Segment(s, v) : s \in Keys(CORE_TOKENS), v \in LineValues}

\* one or two segments whose values are empty, span lines or hold a token
\* in the middle of a line; and the same after a line of free text
RichTokens == { <<"/", "a">>, <<"/", "b">>, <<"U+1F680">>, <<"U+2753">> }

RichValues ==
  { <<>>,
    <<"x">>,
    <<"x", "\n", "y">>,
    <<"x", "\n", "\n", "y", " ">>,
    <<"x", " ", "/", "w", ":", " ", "y">>,
    <<"x", " ", "U+1F4A1", ":", " ", "y">> }

RichSegments == {Segment(t, v) : t \in RichTokens, v \in RichValues}

RichTexts ==
  LET bodies == RichSegments \cup
                {a \o <<"\n">> \o b : a \in RichSegments, b \in RichSegments}
  IN  bodies \cup {<<"h", "i", "\n">> \o b : b \in bodies}

\* messages in which a token comes back: as the same symbol, the same
\* /word, or a symbol and its canonical /word
DuplicateTokens ==
  { <<"U+1F680">>, act, <<"U+1F3D4", "U+FE0F">>,
    <<"/", "g", "l", "i", "p", "h">>, <<"/", "z", "z">> }

DuplicateTexts ==
  {JoinLines(ss, Len(ss)) :
     ss \in SeqsUpTo({Segment(t, v) : t \in DuplicateTokens, v \in LineValues},
                     MaxSegments)}

Texts ==
  ShortTexts \cup SegmentTexts \cup FourSegmentTexts \cup SymbolTexts
  \cup RichTexts \cup DuplicateTexts

\* token mappings for the validator: the keys its rules read, and two others
other == <<"/", "z", "z">>

ValidateKeys == { act, intent, context, deliverable, query, resolve, other }

ValidateMappings ==
  {[i \in 1..Len(ks) |-> <<ks[i], <<"x">>>>] :
     ks \in InjectiveSeqsUpTo(ValidateKeys, MaxValidateKeys)}

\* token mappings for the formatter: one entry for every canonical
\* identifier the registry names with every value, and up to
\* MaxRoundTripKeys entries over a few keys and values
RegistryIdentifiers ==
  {CORE_TOKENS_display[i][2] : i \in 1..Len(CORE_TOKENS_display)}

FormatKeys == { act, context, other, <<"/", "g", "l", "i", "p", "h">> }

FormatValues ==
  RichValues \cup { <<"x", "\n", "/", "w", ":", " ", "y">>,
                    <<"x", "\n", "U+1F4A1", ":", " ", "y">> }

FewValues ==
  { <<>>, <<"x">>, <<"x", "\n", "y">>, <<"x", " ", "/", "w", ":", " ", "y">> }

IsMapping(items) == \A i, j \in 1..Len(items) : i # j => items[i][1] # items[j][1]

FormatMappings ==
  {<<<<k, v>>>> : k \in RegistryIdentifiers \cup {other}, v \in FormatValues}
  \cup {items \in SeqsUpTo(FormatKeys \X FewValues, MaxRoundTripKeys) :
          IsMapping(items)}

TokenMappings == ValidateMappings \cup FormatMappings

(***************************************************************************)
(* The parser at work: a text is parsed; a token mapping is validated, or  *)
(* formatted and the formatted text parsed again.                          *)
(***************************************************************************)
NoMessage == parse_message(<<>>, "none", "none", 0)

NoValidation == [is_valid |-> TRUE, errors |-> <<>>]

\* the text of a call that is handed none
NoText == <<>>

\* a call of a method of the engine: the text handed to add_message, the
\* agent type handed to process_agent_turn, the model whose API was called
\* and the exception raised to the caller, None where there is none
Call(op, txt, agent_type, model, raised) ==
  [op |-> op, text |-> txt, agent_type |-> agent_type, model |-> model,
   raised |-> raised]

\* no method of the engine has been called
NoCall == Call("__init__", NoText, None, None, None)

\* no file has been written
NoFile == [written |-> FALSE]

\* what a specification has no use for keeps its first state
SecondIdle ==
  second_history = <<>> /\ second_context = <<>> /\ second_shared_with = 0

\* SimpleHyRI(): no message, no client
NewHyRI ==
  [conversation_history |-> <<>>, openai_client |-> None,
   anthropic_client |-> None]

\* conversation_loop before its first input: where it stands, the input it
\* works on, the length of the history when the input was read and the
\* context the last model call was given
NoLoop == [pc |-> "input", user_input |-> <<>>, start |-> 0, context |-> <<>>]

\* HyRIEngine() of the Streamlit application
NewHyRIEngine ==
  [conversation_history |-> <<>>, active_context |-> <<>>,
   openai_client |-> None, anthropic_client |-> None]

\* st.session_state after its initialisation
NewSession ==
  [hyri_engine |-> NewHyRIEngine, conversation_started |-> FALSE,
   api_keys_set |-> FALSE]

AppIdle ==
  /\ file = NoFile
  /\ hyri = NewHyRI /\ model_errors = <<>>
  /\ loop = NoLoop
  /\ session_state = NewSession

ParserInit ==
  /\ \/ pc = "text" /\ text \in Texts /\ tokens = <<>>
     \/ pc = "tokens" /\ text = <<>> /\ tokens \in TokenMappings
  /\ use_emojis = TRUE
  /\ message = NoMessage
  /\ validation = NoValidation
  /\ conversation_history = <<>> /\ active_context = <<>> /\ shared_with = 0
  /\ last_call = NoCall
  /\ SecondIdle
  /\ AppIdle

\* parser.parse_message(text, "Human", AgentType.HUMAN)
ParseMessage ==
  /\ pc \in {"text", "formatted"}
  /\ message' = parse_message(text, "Human", "human", 0)
  /\ pc' = IF pc = "text" THEN "parsed" ELSE "reparsed"
  /\ UNCHANGED <<text, tokens, use_emojis, validation, engine_vars, second_vars, app_vars>>

\* errors = []; is_valid = parser.validate_message(tokens, errors)
ValidateMessage ==
  /\ pc = "tokens"
  /\ validation' = validate_message(tokens, <<>>)
  /\ pc' = "validated"
  /\ UNCHANGED <<text, tokens, use_emojis, message, engine_vars, second_vars, app_vars>>

\* text = parser.format_message(tokens, use_emojis)
FormatMessage ==
  /\ pc = "tokens"
  /\ \E e \in BOOLEAN :
       /\ use_emojis' = e
       /\ text' = format_message(tokens, e)
  /\ pc' = "formatted"
  /\ UNCHANGED <<tokens, message, validation, engine_vars, second_vars, app_vars>>

ParserNext == ParseMessage \/ ValidateMessage \/ FormatMessage

ParserSpec == ParserInit /\ [][ParserNext]_vars

(***************************************************************************)
(* ConversationEngine: conversation_history is the list of the messages,   *)
(* active_context a dict.  An engine is handed to the operators below as   *)
(* the record self of its two fields; the clock reading of a message is    *)
(* the number of messages before it.                                       *)
(***************************************************************************)
mind == <<"/", "m", "i", "n", "d">>

focus == <<"/", "f", "o", "c", "u", "s">>

timeline == <<"/", "t", "i", "m", "e", "l", "i", "n", "e">>

channel == <<"/", "c", "h", "a", "n", "n", "e", "l">>

norm == <<"/", "n", "o", "r", "m">>

govern == <<"/", "g", "o", "v", "e", "r", "n">>

\* AgentType
HUMAN == "human"

GPT == "gpt"

CLAUDE == "claude"

AgentType == {HUMAN, GPT, CLAUDE}

\* ConversationEngine.__init__
NewEngine ==
  [conversation_history |-> <<>>, active_context |-> <<>>, shared_with |-> 0]

now(self) == Len(self.conversation_history)

RECURSIVE JoinWith(_, _, _)
\* sep.join(parts) of the first n parts
JoinWith(sep, parts, n) ==
  IF n = 0 THEN <<>>
  ELSE IF n = 1 THEN parts[1]
  ELSE JoinWith(sep, parts, n - 1) \o sep \o parts[n]

\* the init_tokens of initialize_conversation
init_tokens(topic, participants, ctx, intention) ==
  << <<mind, JoinWith(<<",", " ">>, participants, Len(participants))>>,
     <<focus, topic>>,
     <<context,
       IF ctx # <<>> THEN ctx
       ELSE <<"M", "u", "l", "t", "i", "-", "a", "g", "e", "n", "t", " ",
              "d", "i", "a", "l", "o", "g", "u", "e", " ", "o", "n", " ">>
            \o topic>>,
     <<intent,
       IF intention # <<>> THEN intention
       ELSE <<"C", "o", "l", "l", "a", "b", "o", "r", "a", "t", "i", "v", "e",
              " ", "e", "x", "p", "l", "o", "r", "a", "t", "i", "o", "n", " ",
              "a", "n", "d", " ", "u", "n", "d", "e", "r", "s", "t", "a", "n",
              "d", "i", "n", "g">> >>,
     <<deliverable,
       <<"s", "t", "r", "u", "c", "t", "u", "r", "e", "d", "_",
         "d", "i", "a", "l", "o", "g", "u", "e">> >>,
     <<timeline, <<"o", "n", "g", "o", "i", "n", "g">> >>,
     <<channel,
       <<"t", "e", "x", "t", "_", "a", "n", "d", "_", "v", "o", "i", "c", "e">> >>,
     <<norm,
       <<"r", "e", "s", "p", "e", "c", "t", "f", "u", "l", "_",
         "d", "i", "a", "l", "o", "g", "u", "e", ",", " ", "n", "g", "_",
         "p", "r", "o", "t", "o", "c", "o", "l", "_",
         "a", "d", "h", "e", "r", "e", "n", "c", "e">> >>,
     <<govern,
       <<"c", "o", "n", "s", "e", "n", "s", "u", "s", "_",
         "s", "e", "e", "k", "i", "n", "g">> >> >>

\* an initial message that would be written in canonical notation
init_message_canonical_notation(toks, timestamp) ==
  [timestamp |-> timestamp,
   agent |-> "system",
   agent_type |-> HUMAN,
   tokens |-> toks,
   raw_text |-> format_message(toks, FALSE),
   is_valid |-> TRUE,
   validation_errors |-> <<>>]

\* the message initialize_conversation builds: the validator is not run,
\* is_valid and validation_errors are the defaults of NeuroGlyphMessage
init_message(toks, timestamp) ==
  [timestamp |-> timestamp,
   agent |-> "system",
   agent_type |-> HUMAN,
   tokens |-> toks,
   raw_text |-> format_message(toks, TRUE),
   is_valid |-> TRUE,
   validation_errors |-> <<>>]

\* a copy that would be the dict of the message at this position itself
copy_same_object(position) == position

\* init_tokens.copy(), of the dict of the message at this position: a dict
\* of its own, shared with no message
copy(position) == 0

\* an initialization that would start the history anew
initialize_conversation_restarting(self, topic, participants, ctx, intention) ==
  LET toks == init_tokens(topic, participants, ctx, intention)
  IN  [conversation_history |-> <<init_message(toks, now(self))>>,
       active_context |-> toks,
       shared_with |-> 0]

\* ConversationEngine.initialize_conversation(topic, participants, context,
\* intent): the fields of the engine afterwards
initialize_conversation(self, topic, participants, ctx, intention) ==
  LET toks == init_tokens(topic, participants, ctx, intention)
      position == Len(self.conversation_history) + 1
  IN  [conversation_history |->
         Append(self.conversation_history, init_message(toks, now(self))),
       active_context |-> toks,
       shared_with |-> copy(position)]

\* an update that would keep nothing but what the message declares
update_active_context_replacing(ctx, msg) ==
  LET c1 == IF HasKey(msg.tokens, context)
              THEN <<<<context, DictGet(msg.tokens, context, None)>>>>
              ELSE <<>>
  IN  IF HasKey(msg.tokens, focus)
        THEN Append(c1, <<focus, DictGet(msg.tokens, focus, None)>>)
        ELSE c1

\* an update that would add the new value to the old one
update_active_context_accumulating(ctx, msg) ==
  LET put(c, k) ==
        IF HasKey(msg.tokens, k)
          THEN DictSet(c, k, DictGet(c, k, <<>>) \o DictGet(msg.tokens, k, None))
          ELSE c
  IN  put(put(ctx, context), focus)

\* an update that would leave out the messages that are not valid
update_active_context_valid_only(ctx, msg) ==
  LET put(c, k) ==
        IF msg.is_valid /\ HasKey(msg.tokens, k)
          THEN DictSet(c, k, DictGet(msg.tokens, k, None))
          ELSE c
  IN  put(put(ctx, context), focus)

\* the update of active_context in add_message
update_active_context(ctx, msg) ==
  LET c1 == IF HasKey(msg.tokens, context)
              THEN DictSet(ctx, context, DictGet(msg.tokens, context, None))
              ELSE ctx
  IN  IF HasKey(msg.tokens, focus)
        THEN DictSet(c1, focus, DictGet(msg.tokens, focus, None))
        ELSE c1

\* an add_message that would refuse a message that fails validation
add_message_dropping_invalid(self, txt, agent, agent_type) ==
  LET msg == parse_message(txt, agent, agent_type, now(self))
      ctx == update_active_context(self.active_context, msg)
  IN  IF msg.is_valid
        THEN [conversation_history |-> Append(self.conversation_history, msg),
              active_context |-> ctx,
              shared_with |-> self.shared_with]
        ELSE self

\* the history as it reads once active_context holds ctx: the message whose
\* tokens dict is the object active_context names shows ctx as its tokens
seen_through(history, position, ctx) ==
  IF position = 0 THEN history
  ELSE [history EXCEPT ![position].tokens = ctx]

\* ConversationEngine.add_message(text, agent, agent_type): the fields of
\* the engine afterwards; what is assigned to active_context[key] is
\* assigned to the dict it names, the tokens of a message when shared
add_message(self, txt, agent, agent_type) ==
  LET msg == parse_message(txt, agent, agent_type, now(self))
  IN  [conversation_history |->
         seen_through(Append(self.conversation_history, msg), self.shared_with,
                      update_active_context(self.active_context, msg)),
       active_context |-> update_active_context(self.active_context, msg),
       shared_with |-> self.shared_with]

\* what get_gpt_response and get_claude_response return when the call of
\* the API raises e
gpt_error(e) == <<"G", "P", "T", " ", "E", "r", "r", "o", "r", ":", " ">> \o e

claude_error(e) ==
  <<"C", "l", "a", "u", "d", "e", " ", "E", "r", "r", "o", "r", ":", " ">> \o e

\* a process_agent_turn that would take every agent type
raises_ValueError_never(agent_type) == FALSE

\* process_agent_turn raises ValueError for an agent type that is neither
\* GPT nor CLAUDE
raises_ValueError(agent_type) == agent_type \notin {GPT, CLAUDE}

\* the model whose API process_agent_turn calls: get_gpt_response for GPT,
\* get_claude_response otherwise
model_called(agent_type) == IF agent_type = GPT THEN GPT ELSE CLAUDE

\* the name process_agent_turn gives to the agent
agent_name(agent_type) == IF agent_type = GPT THEN "GPT-4" ELSE "Claude"

\* ConversationEngine.process_agent_turn(agent_type, prompt), response being
\* what get_gpt_response or get_claude_response returned
process_agent_turn(self, agent_type, response) ==
  add_message(self, response, agent_name(agent_type), agent_type)

(***************************************************************************)
(* Bounded inputs of the engine.                                           *)
(***************************************************************************)
MaxHistory == 3

\* the arguments of initialize_conversation: topic, participants, context
\* and intent, the last two empty or not
InitArguments ==
  { << <<"t">>, << <<"a">> >>, <<>>, <<>> >>,
    << <<"t">>, << <<"a">>, <<"b">> >>, <<"c">>, <<>> >>,
    << <<"u">>, << <<"a">> >>, <<>>, <<"i">> >>,
    << <<"u">>, <<>>, <<"d">>, <<"i">> >> }

\* the texts handed to add_message
EngineTexts ==
  { <<"/", "c", "o", "n", "t", "e", "x", "t", ":", " ", "c">>,
    <<"/", "f", "o", "c", "u", "s", ":", " ", "f">>,
    <<"/", "m", "i", "n", "d", ":", " ", "m", "\n",
      "/", "f", "o", "c", "u", "s", ":", " ", "f">>,
    <<"U+1F680", ":", " ", "x", "\n",
      "/", "c", "o", "n", "t", "e", "x", "t", ":", " ", "c">>,
    <<"U+1F680", ":", " ", "x">>,
    <<"U+2753", ":", " ", "q">>,
    <<"h", "i">>,
    <<"/", "c", "o", "n", "t", "e", "x", "t", ":", " ", "d", "\n",
      "/", "f", "o", "c", "u", "s", ":", " ", "g">> }

\* what the API of an agent answers, and what it raises
ApiResponses ==
  { <<"/", "c", "o", "n", "t", "e", "x", "t", ":", " ", "d">>,
    <<"U+2753", ":", " ", "q">> }

ApiErrors == { <<"e">> }

Responses(agent_type) ==
  ApiResponses \cup
  {IF agent_type = GPT THEN gpt_error(e) ELSE claude_error(e) : e \in ApiErrors}

(***************************************************************************)
(* The engine at work.                                                     *)
(***************************************************************************)
Self == [conversation_history |-> conversation_history,
         active_context |-> active_context,
         shared_with |-> shared_with]

Becomes(self) ==
  \E engine \in {self} :
    /\ conversation_history' = engine.conversation_history
    /\ active_context' = engine.active_context
    /\ shared_with' = engine.shared_with

ParserIdle ==
  /\ pc = "engine" /\ text = <<>> /\ tokens = <<>> /\ use_emojis = TRUE
  /\ message = NoMessage /\ validation = NoValidation

Init ==
  /\ ParserIdle
  /\ conversation_history = NewEngine.conversation_history
  /\ active_context = NewEngine.active_context
  /\ shared_with = NewEngine.shared_with
  /\ last_call = NoCall
  /\ SecondIdle
  /\ AppIdle

\* await engine.initialize_conversation(topic, participants, context, intent)
InitializeConversation ==
  /\ Len(conversation_history) < MaxHistory
  /\ \E args \in InitArguments :
       Becomes(initialize_conversation(Self, args[1], args[2], args[3], args[4]))
  /\ last_call' = Call("initialize_conversation", NoText, None, None, None)
  /\ UNCHANGED <<parser_vars, second_vars, app_vars>>

\* await engine.add_message(text, "Human", AgentType.HUMAN)
AddMessage ==
  /\ Len(conversation_history) < MaxHistory
  /\ \E txt \in EngineTexts :
       /\ Becomes(add_message(Self, txt, "Human", HUMAN))
       /\ last_call' = Call("add_message", txt, None, None, None)
  /\ UNCHANGED <<parser_vars, second_vars, app_vars>>

\* await engine.process_agent_turn(agent_type, prompt): a ValueError is
\* raised for an agent type that is neither GPT nor CLAUDE, before any
\* model is called, and nothing is added
ProcessAgentTurn ==
  /\ Len(conversation_history) < MaxHistory
  /\ \E agent_type \in AgentType :
       IF raises_ValueError(agent_type)
         THEN /\ UNCHANGED <<conversation_history, active_context, shared_with>>
              /\ last_call' =
                   Call("process_agent_turn", NoText, agent_type, None, "ValueError")
         ELSE \E response \in Responses(agent_type) :
                /\ Becomes(process_agent_turn(Self, agent_type, response))
                /\ last_call' =
                     Call("process_agent_turn", response, agent_type,
                          model_called(agent_type), None)
  /\ UNCHANGED <<parser_vars, second_vars, app_vars>>

Next == InitializeConversation \/ AddMessage \/ ProcessAgentTurn

Spec == Init /\ [][Next]_vars

(***************************************************************************)
(* Two engines side by side: both start from the same state, a new engine  *)
(* or one on which initialize_conversation was called, and each is then    *)
(* handed messages of its own by add_message.                              *)
(***************************************************************************)
MaxFold == 2

FoldTexts ==
  { <<"/", "c", "o", "n", "t", "e", "x", "t", ":", " ", "c">>,
    <<"U+1F680", ":", " ", "x", "\n",
      "/", "c", "o", "n", "t", "e", "x", "t", ":", " ", "c">>,
    <<"/", "f", "o", "c", "u", "s", ":", " ", "f">>,
    <<"/", "m", "i", "n", "d", ":", " ", "m", "\n",
      "/", "f", "o", "c", "u", "s", ":", " ", "f">>,
    <<"h", "i">> }

FoldStarts ==
  {NewEngine} \cup
  {initialize_conversation(NewEngine, args[1], args[2], args[3], args[4]) :
     args \in InitArguments}

Second == [conversation_history |-> second_history,
           active_context |-> second_context,
           shared_with |-> second_shared_with]

\* the messages add_message gave to a history
Added(history) ==
  Cardinality({i \in 1..Len(history) : history[i].agent # "system"})

FoldInit ==
  /\ ParserIdle
  /\ \E start \in FoldStarts :
       /\ conversation_history = start.conversation_history
       /\ active_context = start.active_context
       /\ shared_with = start.shared_with
       /\ second_history = start.conversation_history
       /\ second_context = start.active_context
       /\ second_shared_with = start.shared_with
  /\ last_call = NoCall
  /\ AppIdle

\* await engine.add_message(text, "Human", AgentType.HUMAN)
AddFirst ==
  /\ Added(conversation_history) < MaxFold
  /\ \E txt \in FoldTexts :
       /\ Becomes(add_message(Self, txt, "Human", HUMAN))
       /\ last_call' = Call("add_message", txt, None, None, None)
  /\ UNCHANGED <<parser_vars, second_vars, app_vars>>

\* await second.add_message(text, "Claude", AgentType.CLAUDE)
AddSecond ==
  /\ Added(second_history) < MaxFold
  /\ \E txt \in FoldTexts :
       \E after \in {add_message(Second, txt, "Claude", CLAUDE)} :
         /\ second_history' = after.conversation_history
         /\ second_context' = after.active_context
         /\ second_shared_with' = after.shared_with
  /\ UNCHANGED <<parser_vars, engine_vars, app_vars>>

FoldNext == AddFirst \/ AddSecond

FoldSpec == FoldInit /\ [][FoldNext]_vars

(***************************************************************************)
(* Persistence: save_conversation writes the active context and the        *)
(* messages as JSON, load_conversation reads them back.                    *)
(***************************************************************************)
MaxPersist == 2

\* json.dump has no encoding for a member of an Enum that is not a str:
\* TypeError: Object of type AgentType is not JSON serializable
json_default_raises(value) == value \in AgentType

\* ConversationEngine.save_conversation(filename): the file afterwards and
\* the exception raised.  The file is opened for writing and json.dump
\* writes as it encodes, so an exception leaves a document cut off in the
\* message that could not be encoded
save_conversation(self) ==
  LET messages == self.conversation_history
      unserializable ==
        {i \in 1..Len(messages) : json_default_raises(messages[i].agent_type)}
  IN  IF unserializable = {}
        THEN [file |-> [written |-> TRUE, complete |-> TRUE,
                        active_context |-> self.active_context,
                        messages |-> messages],
              raised |-> None]
        ELSE [file |-> [written |-> TRUE, complete |-> FALSE,
                        active_context |-> self.active_context,
                        messages |-> SubSeq(messages, 1, Min(unserializable) - 1)],
              raised |-> "TypeError"]

\* ConversationEngine.load_conversation(filename): the engine afterwards and
\* the exception raised; open and json.load raise before anything is
\* assigned
load_conversation(self, f) ==
  IF ~f.written THEN [engine |-> self, raised |-> "FileNotFoundError"]
  ELSE IF ~f.complete THEN [engine |-> self, raised |-> "JSONDecodeError"]
  ELSE [engine |-> [conversation_history |-> f.messages,
                    active_context |-> f.active_context,
                    shared_with |-> 0],
        raised |-> None]

PersistInit ==
  /\ ParserIdle
  /\ \E start \in FoldStarts :
       /\ conversation_history = start.conversation_history
       /\ active_context = start.active_context
       /\ shared_with = start.shared_with
  /\ last_call = NoCall
  /\ SecondIdle
  /\ AppIdle

\* await engine.add_message(text, "Human", AgentType.HUMAN)
PersistAdd ==
  /\ Added(conversation_history) < MaxPersist
  /\ \E txt \in FoldTexts :
       /\ Becomes(add_message(Self, txt, "Human", HUMAN))
       /\ last_call' = Call("add_message", txt, None, None, None)
  /\ UNCHANGED <<parser_vars, second_vars, app_vars>>

\* engine.save_conversation(filename)
SaveConversation ==
  /\ \E saved \in {save_conversation(Self)} :
       /\ file' = saved.file
       /\ last_call' = Call("save_conversation", NoText, None, None, saved.raised)
  /\ UNCHANGED <<conversation_history, active_context, shared_with>>
  /\ UNCHANGED <<parser_vars, second_vars, hyri, model_errors, loop, session_state>>

\* engine.load_conversation(filename)
LoadConversation ==
  /\ \E loaded \in {load_conversation(Self, file)} :
       /\ Becomes(loaded.engine)
       /\ last_call' = Call("load_conversation", NoText, None, None, loaded.raised)
  /\ UNCHANGED <<parser_vars, second_vars, app_vars>>

PersistNext == PersistAdd \/ SaveConversation \/ LoadConversation

PersistSpec == PersistInit /\ [][PersistNext]_vars

(***************************************************************************)
(* The command-line loop (NeuroGlyphPlatform.conversation_loop) in text    *)
(* mode: one input per iteration, a command or a message; the calls it     *)
(* awaits one after the other are steps of their own.                      *)
(***************************************************************************)
MaxLoopHistory == 4

echo == <<"/", "e", "c", "h", "o">>

Lowercase ==
  "A" :> "a" @@ "B" :> "b" @@ "C" :> "c" @@ "D" :> "d" @@ "E" :> "e" @@
  "F" :> "f" @@ "G" :> "g" @@ "H" :> "h" @@ "I" :> "i" @@ "J" :> "j" @@
  "K" :> "k" @@ "L" :> "l" @@ "M" :> "m" @@ "N" :> "n" @@ "O" :> "o" @@
  "P" :> "p" @@ "Q" :> "q" @@ "R" :> "r" @@ "S" :> "s" @@ "T" :> "t" @@
  "U" :> "u" @@ "V" :> "v" @@ "W" :> "w" @@ "X" :> "x" @@ "Y" :> "y" @@
  "Z" :> "z"

\* str.lower()
lower(s) ==
  [i \in 1..Len(s) |-> IF s[i] \in DOMAIN Lowercase THEN Lowercase[s[i]] ELSE s[i]]

quit_command == <<"q", "u", "i", "t">>

voice_command == <<"v", "o", "i", "c", "e">>

text_command == <<"t", "e", "x", "t">>

save_command == <<"s", "a", "v", "e">>

gpt_command == <<"g", "p", "t">>

claude_command == <<"c", "l", "a", "u", "d", "e">>

both_command == <<"b", "o", "t", "h">>

Commands ==
  {quit_command, voice_command, text_command, save_command, gpt_command,
   claude_command, both_command}

RECURSIVE context_parts(_, _)
\* f"[{msg.agent}]: {msg.raw_text}" for the first n of the messages
context_parts(messages, n) ==
  IF n = 0 THEN <<>>
  ELSE Append(context_parts(messages, n - 1),
              <<messages[n].agent, messages[n].raw_text>>)

\* ConversationEngine.get_conversation_context: what of the engine the text
\* given to a model holds, the active context, focus and participants and
\* the last three messages
get_conversation_context(self) ==
  LET history == self.conversation_history
      first == IF Len(history) > 3 THEN Len(history) - 2 ELSE 1
  IN  [context |-> DictGet(self.active_context, context,
                           <<"G", "e", "n", "e", "r", "a", "l", " ",
                             "d", "i", "a", "l", "o", "g", "u", "e">>),
       focus |-> DictGet(self.active_context, focus,
                         <<"O", "p", "e", "n", " ",
                           "d", "i", "s", "c", "u", "s", "s", "i", "o", "n">>),
       mind |-> DictGet(self.active_context, mind,
                        <<"U", "n", "k", "n", "o", "w", "n">>),
       recent |-> context_parts(SubSeq(history, first, Len(history)),
                                Len(history) - first + 1)]

\* a loop that would reply to a question only
auto_responds_to_query_only(toks) == HasKey(toks, query)

\* if '/echo' in human_msg.tokens or '/query' in human_msg.tokens
auto_responds(toks) == HasKey(toks, echo) \/ HasKey(toks, query)

\* what the user types
LoopInputs ==
  { <<"U+2753", ":", " ", "q">>,
    <<"U+1F4E2", ":", " ", "e">>,
    <<"U+1F680", ":", " ", "x">>,
    <<"h", "i">>,
    <<" ">>,
    quit_command, voice_command, text_command, save_command, gpt_command,
    <<"G", "P", "T">>, claude_command, both_command }

\* user_input = input(...).strip()
Typed == {strip(raw) : raw \in LoopInputs}

\* what the models answer: a reply or an error text
LoopResponses(agent_type) ==
  { <<"/", "c", "o", "n", "t", "e", "x", "t", ":", " ", "d">>,
    IF agent_type = GPT THEN gpt_error(<<"e">>) ELSE claude_error(<<"e">>) }

\* the conversation main() starts before it enters the loop: it asks for a
\* topic, a context and an intent; the participants are those of the
\* configuration
LoopInit ==
  /\ ParserIdle
  /\ \E args \in { << <<"t">>, << <<"a">> >>, <<>>, <<>> >>,
                    << <<"u">>, << <<"a">> >>, <<"c">>, <<"i">> >> } :
       \E start \in {initialize_conversation(NewEngine, args[1], args[2],
                                               args[3], args[4])} :
         /\ conversation_history = start.conversation_history
         /\ active_context = start.active_context
         /\ shared_with = start.shared_with
  /\ last_call = Call("initialize_conversation", NoText, None, None, None)
  /\ SecondIdle
  /\ AppIdle

loop_frame == <<parser_vars, second_vars, hyri, model_errors, session_state>>

\* the iteration that reads user_input
Reads(user_input) ==
  [pc |-> "input", user_input |-> user_input,
   start |-> Len(conversation_history), context |-> <<>>]

\* an empty input, 'voice' or 'text': continue
NoMessageInput ==
  /\ loop.pc = "input"
  /\ \E user_input \in Typed :
       /\ user_input = <<>> \/ lower(user_input) \in {voice_command, text_command}
       /\ loop' = Reads(user_input)
  /\ UNCHANGED <<engine_vars, file, loop_frame>>

\* 'quit': the loop is left and the conversation is saved (auto_save)
QuitCommand ==
  /\ loop.pc = "input"
  /\ \E user_input \in Typed :
       /\ lower(user_input) = quit_command
       /\ loop' = [Reads(user_input) EXCEPT !.pc = "done"]
  /\ \E saved \in {save_conversation(Self)} :
       /\ file' = saved.file
       /\ last_call' = Call("save_conversation", NoText, None, None, saved.raised)
  /\ UNCHANGED <<conversation_history, active_context, shared_with, loop_frame>>

\* 'save': an exception of save_conversation is caught by the loop
SaveCommand ==
  /\ loop.pc = "input"
  /\ \E user_input \in Typed :
       /\ lower(user_input) = save_command
       /\ loop' = Reads(user_input)
  /\ \E saved \in {save_conversation(Self)} :
       /\ file' = saved.file
       /\ last_call' = Call("save_conversation", NoText, None, None, saved.raised)
  /\ UNCHANGED <<conversation_history, active_context, shared_with, loop_frame>>

\* 'gpt', 'claude' and 'both': one reply is requested, or GPT-4's and then
\* Claude's
AgentCommand ==
  /\ loop.pc = "input"
  /\ \E user_input \in Typed :
       /\ lower(user_input) \in {gpt_command, claude_command, both_command}
       /\ Len(conversation_history)
            + (IF lower(user_input) = both_command THEN 2 ELSE 1)
            <= MaxLoopHistory
       /\ loop' = [Reads(user_input) EXCEPT
                     !.pc = IF lower(user_input) = gpt_command THEN "gpt"
                            ELSE IF lower(user_input) = claude_command THEN "claude"
                            ELSE "gpt_then_claude"]
  /\ UNCHANGED <<engine_vars, file, loop_frame>>

\* any other input is a message: it is added, and a reply round follows when
\* it holds /echo or /query
HumanMessage ==
  /\ loop.pc = "input"
  /\ \E user_input \in Typed :
       /\ user_input # <<>>
       /\ lower(user_input) \notin Commands
       /\ \E engine \in {add_message(Self, user_input, "Human", HUMAN)} :
            \E human_msg \in
                {engine.conversation_history[Len(engine.conversation_history)]} :
              /\ Len(conversation_history)
                   + (IF auto_responds(human_msg.tokens) THEN 3 ELSE 1)
                   <= MaxLoopHistory
              /\ Becomes(engine)
              /\ last_call' = Call("add_message", user_input, None, None, None)
              /\ loop' = [Reads(user_input) EXCEPT
                            !.pc = IF auto_responds(human_msg.tokens)
                                     THEN "gpt_then_claude" ELSE "input"]
  /\ UNCHANGED <<file, loop_frame>>

\* await self.engine.process_agent_turn(agent_type, prompt): GPT-4 is asked,
\* or Claude when only Claude is left to ask; the context the model is given
\* is noted
AgentReply ==
  /\ loop.pc \in {"gpt", "gpt_then_claude", "claude"}
  /\ \E agent_type \in {IF loop.pc = "claude" THEN CLAUDE ELSE GPT} :
       \E response \in LoopResponses(agent_type) :
         /\ Becomes(process_agent_turn(Self, agent_type, response))
         /\ last_call' = Call("process_agent_turn", response, agent_type,
                              model_called(agent_type), None)
  /\ loop' = [loop EXCEPT
                !.pc = IF loop.pc = "gpt_then_claude" THEN "claude" ELSE "input",
                !.context = get_conversation_context(Self)]
  /\ UNCHANGED <<file, loop_frame>>

LoopNext ==
  \/ NoMessageInput
  \/ QuitCommand
  \/ SaveCommand
  \/ AgentCommand
  \/ HumanMessage
  \/ AgentReply

LoopSpec == LoopInit /\ [][LoopNext]_vars

(***************************************************************************)
(* The Colab notebook (hyri_colab_notebook.py): its own parser, which      *)
(* splits the text into lines and each line at its first colon, and the    *)
(* engine SimpleHyRI with the callbacks of its buttons.                    *)
(***************************************************************************)
MaxColabHistory == 3

colab_CORE_TOKENS ==
  DictOf(<< <<<<"U+1F9E0">>, mind>>,
            <<<<"U+1F4DA">>, focus>>,
            <<<<"U+1F3AF">>, context>>,
            <<<<"U+1F4A1">>, intent>>,
            <<<<"U+1F4E6">>, deliverable>>,
            <<<<"U+2753">>, query>>,
            <<<<"U+1F680">>, act>>,
            <<<<"U+23F0">>, timeline>>,
            <<<<"U+1F525">>, <<"/", "p", "u", "l", "s", "e">>>>,
            <<<<"U+1F91D">>, <<"/", "t", "r", "u", "s", "t">>>>,
            <<<<"U+1F4DD">>, <<"/", "n", "o", "t", "e">>>>,
            <<<<"U+1F50D">>, <<"/", "i", "n", "t", "r", "o", "s", "p", "e", "c", "t">>>> >>)

colab_ErrIntent == "Action requires /intent"

RECURSIVE split_lines(_)
\* s.split('\n')
split_lines(s) ==
  LET breaks == {i \in 1..Len(s) : s[i] = "\n"}
  IN  IF breaks = {} THEN <<s>>
      ELSE <<SubSeq(s, 1, Min(breaks) - 1)>>
             \o split_lines(SubSeq(s, Min(breaks) + 1, Len(s)))

RECURSIVE colab_tokens(_, _)
\* the loop over the lines: a line with a colon is split at its first colon,
\* both parts are stripped, a symbol of CORE_TOKENS is replaced by its
\* identifier and anything else is kept as the key
colab_tokens(lines, n) ==
  IF n = 0 THEN <<>>
  ELSE LET line == lines[n]
           colons == {i \in 1..Len(line) : line[i] = ":"}
           before == colab_tokens(lines, n - 1)
       IN  IF colons = {} THEN before
           ELSE LET token_part == strip(SubSeq(line, 1, Min(colons) - 1))
                    value == strip(SubSeq(line, Min(colons) + 1, Len(line)))
                    token == DictGet(colab_CORE_TOKENS, token_part, token_part)
                IN  DictSet(before, token, value)

\* "Simple validation": an action requires an intent
colab_validation_errors(toks) ==
  IF HasKey(toks, act) /\ ~HasKey(toks, intent)
    THEN <<colab_ErrIntent>> ELSE <<>>

\* NeuroGlyphParser.parse_message of the notebook
colab_parse_message(txt, agent, agent_type, timestamp) ==
  LET lines == split_lines(strip(txt))
      toks == colab_tokens(lines, Len(lines))
      validation_errors == colab_validation_errors(toks)
  IN  [timestamp |-> timestamp,
       agent |-> agent,
       agent_type |-> agent_type,
       tokens |-> toks,
       raw_text |-> txt,
       is_valid |-> validation_errors = <<>>,
       validation_errors |-> validation_errors]

\* SimpleHyRI.set_api_keys: a client is created for a key that is not empty
set_api_keys(self, openai_key, anthropic_key) ==
  [self EXCEPT
     !.openai_client = IF openai_key # <<>> THEN "OpenAI" ELSE @,
     !.anthropic_client = IF anthropic_key # <<>> THEN "Anthropic" ELSE @]

\* SimpleHyRI.add_message
colab_add_message(self, txt, agent, agent_type) ==
  [self EXCEPT !.conversation_history =
     Append(@, colab_parse_message(txt, agent, agent_type,
                                   Len(self.conversation_history)))]

openai_not_configured ==
  <<"U+274C", " ", "O", "p", "e", "n", "A", "I", " ", "c", "l", "i", "e", "n", "t",
    " ", "n", "o", "t", " ", "c", "o", "n", "f", "i", "g", "u", "r", "e", "d">>

anthropic_not_configured ==
  <<"U+274C", " ", "A", "n", "t", "h", "r", "o", "p", "i", "c", " ", "c", "l", "i",
    "e", "n", "t", " ", "n", "o", "t", " ", "c", "o", "n", "f", "i", "g", "u", "r",
    "e", "d">>

\* what a call of a model's API ends with: the content of the reply, or an
\* exception with its text
Reply(content) == [raised |-> FALSE, text |-> content]

Raise(e) == [raised |-> TRUE, text |-> e]

\* SimpleHyRI.get_gpt_response: the text it returns
colab_get_gpt_response(self, outcome) ==
  IF self.openai_client = None THEN openai_not_configured
  ELSE IF outcome.raised
    THEN <<"U+274C", " ", "G", "P", "T", " ", "E", "r", "r", "o", "r", ":", " ">>
           \o outcome.text
    ELSE outcome.text

\* SimpleHyRI.get_claude_response: the text it returns
colab_get_claude_response(self, outcome) ==
  IF self.anthropic_client = None THEN anthropic_not_configured
  ELSE IF outcome.raised
    THEN <<"U+274C", " ", "C", "l", "a", "u", "d", "e", " ", "E", "r", "r", "o", "r",
           ":", " ">> \o outcome.text
    ELSE outcome.text

\* no error: the model replied, or none was called
NoError == <<>>

\* the error a model call failed with: the text of the exception, the text
\* returned for a client that is not configured, NoError for a reply
gpt_failure(self, outcome) ==
  IF self.openai_client = None THEN openai_not_configured
  ELSE IF outcome.raised THEN outcome.text ELSE NoError

claude_failure(self, outcome) ==
  IF self.anthropic_client = None THEN anthropic_not_configured
  ELSE IF outcome.raised THEN outcome.text ELSE NoError

\* the values of the message widget, and what the APIs answer
ColabTexts ==
  { <<"U+1F680", ":", " ", "x">>,
    <<"U+1F680", ":", " ", "x", "\n", "U+1F4A1", ":", " ", "y">>,
    <<"U+1F680", ":", " ", "x", "\n", "U+1F4A1", ":", " ", "y", "\n",
      "U+1F3AF", ":", " ", "c">>,
    <<"/", "a", "c", "t", ":", " ", "x", "\n",
      "/", "c", "o", "n", "t", "e", "x", "t", ":", " ", "c">>,
    <<"h", "i", ":", " ", "y", "o", "u">>,
    <<"h", "i">>,
    <<" ">> }

ColabOutcomes ==
  { Reply(<<"U+2753", ":", " ", "q">>), Raise(<<"b", "o", "o", "m">>) }

ColabIdle ==
  /\ ParserIdle
  /\ conversation_history = NewEngine.conversation_history
  /\ active_context = NewEngine.active_context
  /\ shared_with = NewEngine.shared_with
  /\ last_call = NoCall
  /\ SecondIdle
  /\ file = NoFile
  /\ loop = NoLoop
  /\ session_state = NewSession

ColabInit == ColabIdle /\ hyri = NewHyRI /\ model_errors = <<>>

colab_frame == <<parser_vars, engine_vars, second_vars, file, loop, session_state>>

\* setup_hyri(b): the "Initialize HyRI" button
SetupHyri ==
  /\ \E openai_key, anthropic_key \in { <<>>, <<"s", "k">> } :
       hyri' = set_api_keys(hyri, openai_key, anthropic_key)
  /\ UNCHANGED <<model_errors, colab_frame>>

\* send_message(b): a message that is not blank is added
SendMessage ==
  /\ Len(hyri.conversation_history) < MaxColabHistory
  /\ \E value \in ColabTexts :
       /\ strip(value) # <<>>
       /\ hyri' = colab_add_message(hyri, value, "Human", HUMAN)
       /\ model_errors' = Append(model_errors, NoError)
  /\ UNCHANGED colab_frame

\* get_gpt_response(b): whatever get_gpt_response returns is added
GetGptResponse ==
  /\ Len(hyri.conversation_history) < MaxColabHistory
  /\ \E outcome \in ColabOutcomes :
       /\ hyri' = colab_add_message(hyri, colab_get_gpt_response(hyri, outcome),
                                    "GPT-4", GPT)
       /\ model_errors' = Append(model_errors, gpt_failure(hyri, outcome))
  /\ UNCHANGED colab_frame

\* get_claude_response(b)
GetClaudeResponse ==
  /\ Len(hyri.conversation_history) < MaxColabHistory
  /\ \E outcome \in ColabOutcomes :
       /\ hyri' = colab_add_message(hyri, colab_get_claude_response(hyri, outcome),
                                    "Claude", CLAUDE)
       /\ model_errors' = Append(model_errors, claude_failure(hyri, outcome))
  /\ UNCHANGED colab_frame

\* get_both_responses(b): each model is asked only when its client is set
GetBothResponses ==
  /\ Len(hyri.conversation_history) + 2 <= MaxColabHistory
  /\ \E first \in ColabOutcomes, second \in ColabOutcomes :
       \E after_gpt \in
           {IF hyri.openai_client # None
              THEN colab_add_message(hyri, colab_get_gpt_response(hyri, first),
                                     "GPT-4", GPT)
              ELSE hyri},
          gpt_errors \in
           {IF hyri.openai_client # None
              THEN Append(model_errors, gpt_failure(hyri, first))
              ELSE model_errors} :
         /\ hyri' =
              IF hyri.anthropic_client # None
                THEN colab_add_message(after_gpt,
                       colab_get_claude_response(after_gpt, second),
                       "Claude", CLAUDE)
                ELSE after_gpt
         /\ model_errors' =
              IF hyri.anthropic_client # None
                THEN Append(gpt_errors, claude_failure(after_gpt, second))
                ELSE gpt_errors
  /\ UNCHANGED colab_frame

ColabNext ==
  \/ SetupHyri
  \/ SendMessage
  \/ GetGptResponse
  \/ GetClaudeResponse
  \/ GetBothResponses

ColabSpec == ColabInit /\ [][ColabNext]_vars

(***************************************************************************)
(* The Streamlit application (hyri_streamlit_app.py): the engine held in   *)
(* st.session_state and the buttons of the page.  Its parser is the main   *)
(* parser, line for line.                                                  *)
(***************************************************************************)
MaxAppHistory == 4

\* HyRIEngine.initialize_clients: a client is created for a key that is not
\* empty
initialize_clients(self, openai_key, anthropic_key) ==
  [self EXCEPT
     !.openai_client = IF openai_key # <<>> THEN "OpenAI" ELSE @,
     !.anthropic_client = IF anthropic_key # <<>> THEN "Anthropic" ELSE @]

\* init_tokens of HyRIEngine.initialize_conversation: those of the main
\* engine but for the default context and the channel
streamlit_init_tokens(topic, participants, ctx, intention) ==
  DictSet(
    DictSet(init_tokens(topic, participants, ctx, intention), context,
            IF ctx # <<>> THEN ctx
            ELSE <<"S", "t", "r", "u", "c", "t", "u", "r", "e", "d", " ",
                   "d", "i", "a", "l", "o", "g", "u", "e", " ", "o", "n", " ">>
                 \o topic),
    channel,
    <<"w", "e", "b", "_", "i", "n", "t", "e", "r", "f", "a", "c", "e">>)

\* the engine once init_message is appended and a copy of init_tokens is the
\* active context
initialized_with(self, toks) ==
  [self EXCEPT
     !.conversation_history = Append(@, init_message(toks, Len(@))),
     !.active_context = toks]

\* HyRIEngine.initialize_conversation
streamlit_initialize_conversation(self, topic, participants, ctx, intention) ==
  initialized_with(self, streamlit_init_tokens(topic, participants, ctx, intention))

\* the engine with the history and the active context add_message leaves
with_conversation(self, engine) ==
  [self EXCEPT !.conversation_history = engine.conversation_history,
               !.active_context = engine.active_context]

\* HyRIEngine.add_message, the code of ConversationEngine.add_message
streamlit_add_message(self, txt, agent, agent_type) ==
  with_conversation(self,
    add_message([conversation_history |-> self.conversation_history,
                 active_context |-> self.active_context,
                 shared_with |-> 0],
                txt, agent, agent_type))

\* HyRIEngine.get_gpt_response and get_claude_response: the text returned
streamlit_response(self, agent_type, outcome) ==
  IF agent_type = GPT
    THEN IF self.openai_client = None
           THEN <<"G", "P", "T", " ", "E", "r", "r", "o", "r", ":", " ", "A", "P", "I",
                    " ", "c", "l", "i", "e", "n", "t", " ", "n", "o", "t", " ", "i", "n",
                    "i", "t", "i", "a", "l", "i", "z", "e", "d", ".", " ", "P", "l", "e",
                    "a", "s", "e", " ", "c", "h", "e", "c", "k", " ", "y", "o", "u", "r",
                    " ", "O", "p", "e", "n", "A", "I", " ", "A", "P", "I", " ", "k", "e",
                    "y", ".">>
           ELSE IF outcome.raised THEN gpt_error(outcome.text) ELSE outcome.text
    ELSE IF self.anthropic_client = None
           THEN <<"C", "l", "a", "u", "d", "e", " ", "E", "r", "r", "o", "r", ":", " ",
                    "A", "P", "I", " ", "c", "l", "i", "e", "n", "t", " ", "n", "o", "t",
                    " ", "i", "n", "i", "t", "i", "a", "l", "i", "z", "e", "d", ".", " ",
                    "P", "l", "e", "a", "s", "e", " ", "c", "h", "e", "c", "k", " ", "y",
                    "o", "u", "r", " ", "A", "n", "t", "h", "r", "o", "p", "i", "c", " ",
                    "A", "P", "I", " ", "k", "e", "y", ".">>
           ELSE IF outcome.raised THEN claude_error(outcome.text)
                ELSE outcome.text

RECURSIVE streamlit_replies(_, _, _, _)
\* the replies of the first n of the agents asked, each added as it comes
streamlit_replies(self, agents, outcomes, n) ==
  IF n = 0 THEN self
  ELSE streamlit_add_message(
         streamlit_replies(self, agents, outcomes, n - 1),
         streamlit_response(streamlit_replies(self, agents, outcomes, n - 1),
                            agents[n], outcomes[n]),
         agent_name(agents[n]), agents[n])

\* the agents a reply button asks: each only when its client is set
asked(self, button) ==
  (IF button \in {"gpt", "both"} /\ self.openai_client # None
     THEN <<GPT>> ELSE <<>>)
  \o (IF button \in {"claude", "both"} /\ self.anthropic_client # None
        THEN <<CLAUDE>> ELSE <<>>)

StreamlitInit ==
  /\ ParserIdle
  /\ conversation_history = NewEngine.conversation_history
  /\ active_context = NewEngine.active_context
  /\ shared_with = NewEngine.shared_with
  /\ last_call = NoCall
  /\ SecondIdle
  /\ AppIdle

streamlit_frame ==
  <<parser_vars, engine_vars, second_vars, file, hyri, model_errors, loop>>

\* the "Set API Keys" button
SetApiKeys ==
  /\ \E openai_key, anthropic_key \in { <<>>, <<"s", "k">> } :
       session_state' =
         IF openai_key # <<>> \/ anthropic_key # <<>>
           THEN [session_state EXCEPT
                   !.hyri_engine = initialize_clients(@, openai_key, anthropic_key),
                   !.api_keys_set = TRUE]
           ELSE session_state
  /\ UNCHANGED streamlit_frame

\* the "Start Conversation" button, shown while no conversation is started
StartConversation ==
  /\ ~session_state.conversation_started
  /\ Len(session_state.hyri_engine.conversation_history) < MaxAppHistory
  /\ \E topic \in { <<>>, <<"t">> } :
       session_state' =
         IF topic # <<>> /\ session_state.api_keys_set
           THEN [session_state EXCEPT
                   !.hyri_engine =
                     streamlit_initialize_conversation(@, topic,
                       << <<"H", "u", "m", "a", "n">>,
                          <<"G", "P", "T", "-", "4">>,
                          <<"C", "l", "a", "u", "d", "e">> >>, <<>>, <<>>),
                   !.conversation_started = TRUE]
           ELSE session_state
  /\ UNCHANGED streamlit_frame

\* the "Reset Conversation" button, shown while a conversation is started
ResetConversation ==
  /\ session_state.conversation_started
  /\ session_state' = [session_state EXCEPT !.hyri_engine = NewHyRIEngine,
                                            !.conversation_started = FALSE]
  /\ UNCHANGED streamlit_frame

\* the "Send Message" button, with a message text that is not empty
StreamlitSendMessage ==
  /\ session_state.conversation_started
  /\ Len(session_state.hyri_engine.conversation_history) < MaxAppHistory
  /\ \E message_text \in
         { <<>>, <<"h", "i">>,
           <<"/", "c", "o", "n", "t", "e", "x", "t", ":", " ", "c">> } :
       /\ message_text # <<>>
       /\ session_state' =
            [session_state EXCEPT
               !.hyri_engine = streamlit_add_message(@, message_text, "Human", HUMAN)]
  /\ UNCHANGED streamlit_frame

\* the buttons "Get GPT Response", "Get Claude Response" and "Both Agents"
StreamlitReplies ==
  /\ session_state.conversation_started
  /\ \E button \in {"gpt", "claude", "both"} :
       \E agents \in {asked(session_state.hyri_engine, button)} :
         /\ Len(session_state.hyri_engine.conversation_history) + Len(agents)
              <= MaxAppHistory
         /\ \E outcomes \in [1..Len(agents) ->
                              { Reply(<<"U+2753", ":", " ", "q">>),
                                Raise(<<"e">>) }] :
              session_state' =
                [session_state EXCEPT
                   !.hyri_engine =
                     streamlit_replies(@, agents, outcomes, Len(agents))]
  /\ UNCHANGED streamlit_frame

StreamlitNext ==
  \/ SetApiKeys
  \/ StartConversation
  \/ ResetConversation
  \/ StreamlitSendMessage
  \/ StreamlitReplies

StreamlitSpec == StreamlitInit /\ [][StreamlitNext]_vars

(***************************************************************************)
(* What the claims speak of.                                               *)
(***************************************************************************)
Range(q) == {q[i] : i \in 1..Len(q)}

Count(q, x) == Cardinality({i \in 1..Len(q) : q[i] = x})

ErrorLevel == {ErrIntent, ErrContext}

ErrorCount(q) == Cardinality({i \in 1..Len(q) : q[i] \in ErrorLevel})

\* the lines of a text
Lines(txt) ==
  LET brk == {0, Len(txt) + 1} \cup {i \in 1..Len(txt) : txt[i] = "\n"}
      b(n) == CHOOSE i \in brk : Cardinality({j \in brk : j < i}) = n - 1
  IN  [n \in 1..(Cardinality(brk) - 1) |-> SubSeq(txt, b(n) + 1, b(n + 1) - 1)]

\* what the last call of the validator was given and gave back, whether it
\* was called alone or by parse_message
ValidatedTokens == IF pc = "validated" THEN tokens ELSE message.tokens

ValidatedIsValid ==
  IF pc = "validated" THEN validation.is_valid ELSE message.is_valid

ValidatedErrors ==
  IF pc = "validated" THEN validation.errors ELSE message.validation_errors

HasBeenValidated == pc \in {"validated", "parsed", "reparsed"}
(***************************************************************************)
(* C1.  A message of the four segments U+1F680, U+1F4A1, U+1F3AF and       *)
(* U+1F4E6, one per line, each with a non-empty one-line value, is parsed  *)
(* to a mapping with exactly the keys /act, /intent, /context and          *)
(* /deliverable, the value of the U+1F3AF segment under /context, is_valid *)
(* true and no diagnostic.                                                 *)
(***************************************************************************)
\* a line "<symbol>: <value>" with one of the four symbols and a value
IsFourSymbolLine(line) ==
  /\ Len(line) >= 4
  /\ <<line[1]>> \in FourSymbols
  /\ line[2] = ":" /\ line[3] = " "
  /\ ~IsSpace(line[4]) /\ ~IsSpace(line[Len(line)])

IsFourSegmentText(txt) ==
  /\ Len(Lines(txt)) = 4
  /\ \A i \in 1..4 : IsFourSymbolLine(Lines(txt)[i])
  /\ {<<Lines(txt)[i][1]>> : i \in 1..4} = FourSymbols

ValueOfSymbolLine(txt, symbol) ==
  LET line == Lines(txt)[CHOOSE i \in 1..4 : <<Lines(txt)[i][1]>> = symbol]
  IN  SubSeq(line, 4, Len(line))

C1_FourSegmentsParseToContext ==
  (pc = "parsed" /\ IsFourSegmentText(text)) =>
     /\ Keys(message.tokens) = {act, intent, context, deliverable}
     /\ DictGet(message.tokens, context, None) =
          ValueOfSymbolLine(text, <<"U+1F3AF">>)
     /\ message.is_valid
     /\ message.validation_errors = <<>>

(***************************************************************************)
(* C2.  For a mapping with /act, validate_message appends one error for a  *)
(* missing /intent and, independently, one error for a missing /context,   *)
(* and returns false exactly when one of them is missing; with neither     *)
(* there are exactly two errors.  A mapping without /act gets no error.    *)
(***************************************************************************)
C2_ActionRequiresIntentAndContext ==
  HasBeenValidated =>
    LET toks == ValidatedTokens
        errors == ValidatedErrors
        noIntent == ~HasKey(toks, intent)
        noContext == ~HasKey(toks, context)
    IN  IF HasKey(toks, act)
          THEN /\ Count(errors, ErrIntent) = (IF noIntent THEN 1 ELSE 0)
               /\ Count(errors, ErrContext) = (IF noContext THEN 1 ELSE 0)
               /\ ValidatedIsValid = ~(noIntent \/ noContext)
               /\ (noIntent /\ noContext) => ErrorCount(errors) = 2
          ELSE ErrorCount(errors) = 0

C2_Witness ==
  /\ pc = "validated"
  /\ HasKey(tokens, act) /\ ~HasKey(tokens, intent) /\ ~HasKey(tokens, context)
  /\ HasKey(tokens, deliverable)
  /\ validation = [is_valid |-> FALSE, errors |-> <<ErrIntent, ErrContext>>]

(***************************************************************************)
(* C3.  A mapping with one of /act, /query, /resolve and no /deliverable   *)
(* gets exactly one warning, and the warning does not change is_valid:    *)
(* is_valid is false only with an error diagnostic.  With /act, /intent,   *)
(* /context and no /deliverable the warning is the only diagnostic and     *)
(* is_valid is true.  Any other mapping gets no warning.                   *)
(***************************************************************************)
C3_DeliverableWarning ==
  HasBeenValidated =>
    LET toks == ValidatedTokens
        errors == ValidatedErrors
        interactive == \E k \in {act, query, resolve} : HasKey(toks, k)
    IN  /\ Count(errors, WarnDeliverable) =
             (IF interactive /\ ~HasKey(toks, deliverable) THEN 1 ELSE 0)
        /\ ValidatedIsValid = (ErrorCount(errors) = 0)
        /\ ({act, intent, context} \subseteq Keys(toks) /\ ~HasKey(toks, deliverable))
             => (errors = <<WarnDeliverable>> /\ ValidatedIsValid)

C3_Witness ==
  /\ pc = "validated"
  /\ Keys(tokens) = {act, intent, context}
  /\ validation = [is_valid |-> TRUE, errors |-> <<WarnDeliverable>>]

(***************************************************************************)
(* C4.  The diagnostics come in the order of the rules: the /intent error, *)
(* then the /context error, then the /deliverable warning, each at most    *)
(* once; a message whose only segment is the action token carries the      *)
(* three of them in this order and is not valid.                           *)
(***************************************************************************)
RuleOrder == <<ErrIntent, ErrContext, WarnDeliverable>>

InRuleOrder(errors) ==
  LET fired(d) == d \in Range(errors)
  IN  errors = SelectSeq(RuleOrder, fired)

C4_DiagnosticsInRuleOrder ==
  HasBeenValidated =>
    /\ InRuleOrder(ValidatedErrors)
    /\ (pc = "parsed" /\ Keys(message.tokens) = {act}) =>
          (message.validation_errors = RuleOrder /\ ~message.is_valid)

C4_Witness ==
  /\ pc = "parsed"
  /\ text = <<"U+1F680", ":", " ", "x">>
  /\ message.tokens = <<<<act, <<"x">>>>>>
  /\ message.validation_errors = RuleOrder

(***************************************************************************)
(* Segments as the claims describe them: a segment starts at the start of  *)
(* a line with a registered symbol or a /word, followed by a colon, and    *)
(* runs to the next line that starts a segment, or to the end of the text. *)
(***************************************************************************)
RegisteredSymbols == Keys(CORE_TOKENS)

IsSlashWord(t) ==
  Len(t) >= 2 /\ t[1] = "/" /\ \A j \in 2..Len(t) : t[j] \in WordChars

\* the colons that end a token starting at position p (at most one)
TokenColons(txt, p) ==
  {c \in (p + 1)..Len(txt) :
     /\ txt[c] = ":"
     /\ \/ SubSeq(txt, p, c - 1) \in RegisteredSymbols
        \/ IsSlashWord(SubSeq(txt, p, c - 1))}

IsLineStart(txt, p) == p = 1 \/ txt[p - 1] = "\n"

SegmentStarts(txt) ==
  {p \in 1..Len(txt) : IsLineStart(txt, p) /\ TokenColons(txt, p) # {}}

SegmentColon(txt, p) == CHOOSE c \in TokenColons(txt, p) : TRUE

SegmentKey(txt, p) ==
  LET raw == SubSeq(txt, p, SegmentColon(txt, p) - 1)
  IN  DictGet(CORE_TOKENS, raw, raw)

\* the last position of the segment that starts at p
SegmentLast(txt, p) ==
  LET later == {q \in SegmentStarts(txt) : q > p}
  IN  IF later = {} THEN Len(txt) ELSE Min(later) - 1

SegmentValue(txt, p) ==
  strip(SubSeq(txt, SegmentColon(txt, p) + 1, SegmentLast(txt, p)))

\* the rest of the line of the token that starts at p, trimmed
RestOfLine(txt, p) ==
  LET ends == {e \in p..(Len(txt) + 1) : e = Len(txt) + 1 \/ txt[e] = "\n"}
  IN  strip(SubSeq(txt, SegmentColon(txt, p) + 1, Min(ends) - 1))

IsPrefix(a, b) == Len(a) <= Len(b) /\ SubSeq(b, 1, Len(a)) = a

\* the segment at p is the last one of the text with its key
LastOfItsKey(txt, p) ==
  \A q \in SegmentStarts(txt) : q > p => SegmentKey(txt, q) # SegmentKey(txt, p)

\* no line of the value starts with a registered symbol or a /word: token
LineStartsSegment(line) ==
  \/ \E sym \in RegisteredSymbols : IsPrefix(sym, line)
  \/ \E c \in 3..Len(line) : line[c] = ":" /\ IsSlashWord(SubSeq(line, 1, c - 1))

RoundTripValue(v) ==
  \A i \in 1..Len(Lines(v)) : ~LineStartsSegment(Lines(v)[i])

RoundTripMapping(toks) == \A i \in 1..Len(toks) : RoundTripValue(toks[i][2])

\* a code point of the token class, or a /word, directly followed by a colon
RecognisableTokenAt(txt, p) ==
  \E c \in (p + 1)..Len(txt) :
     /\ txt[c] = ":"
     /\ \/ c = p + 1 /\ txt[p] \in TokenClass
        \/ /\ c > p + 1 /\ txt[p] = "/"
           /\ \A j \in (p + 1)..(c - 1) : txt[j] \in WordChars

NoRecognisableToken(txt) == \A p \in 1..Len(txt) : ~RecognisableTokenAt(txt, p)

\* every symbol of the text is a registered one of a single code point
PlainSymbols(txt) ==
  \A p \in 1..Len(txt) :
     txt[p] \in TokenClass =>
       /\ <<txt[p]>> \in RegisteredSymbols
       /\ p < Len(txt) => txt[p + 1] \notin TokenClass

TokensOnlyAtLineStarts(txt) ==
  \A p \in 1..Len(txt) : RecognisableTokenAt(txt, p) => IsLineStart(txt, p)

OneLine(txt) == \A i \in 1..Len(txt) : txt[i] # "\n"

\* a value of one line, not empty, trimmed, with no colon and no symbol
PlainValue(v) ==
  /\ v # <<>> /\ OneLine(v) /\ strip(v) = v
  /\ \A i \in 1..Len(v) : v[i] # ":" /\ v[i] \notin TokenClass

(***************************************************************************)
(* C5.  Round trip in symbol notation: for every mapping T whose values    *)
(* hold no line that starts with a registered symbol or a /word: token,    *)
(* parsing format_message(T, use_emojis=True) gives T back, whatever the   *)
(* symbol of a key is made of.  Stated for the values of one plain line,   *)
(* where only the notation of the keys is at stake.                        *)
(***************************************************************************)
C5_RoundTripSymbolNotation ==
  (/\ pc = "reparsed" /\ use_emojis
   /\ RoundTripMapping(tokens)
   /\ \A i \in 1..Len(tokens) : PlainValue(tokens[i][2])) =>
     message.tokens = tokens

(***************************************************************************)
(* C6.  Round trip in canonical notation: for every mapping T whose values *)
(* hold no line that starts with a registered symbol or a /word: token     *)
(* (they may be empty, span lines, hold /word: inside a line), parsing     *)
(* format_message(T, use_emojis=False) gives T back.                       *)
(***************************************************************************)
C6_RoundTripCanonicalNotation ==
  (pc = "reparsed" /\ ~use_emojis /\ RoundTripMapping(tokens)) =>
     message.tokens = tokens

(***************************************************************************)
(* C7.  The value stored for a segment is the text from after the colon of *)
(* its token up to the next line that starts a segment, or the end of the  *)
(* text, line breaks kept, trimmed at its two ends only.  Stated for the   *)
(* texts whose tokens all stand at line starts, with symbols of a single   *)
(* code point and no empty value, where only the extent of the values is   *)
(* at stake.                                                               *)
(***************************************************************************)
C7_ValueSpansLines ==
  (/\ pc = "parsed"
   /\ PlainSymbols(text) /\ TokensOnlyAtLineStarts(text)
   /\ \A p \in SegmentStarts(text) : SegmentValue(text, p) # <<>>) =>
     \A p \in SegmentStarts(text) :
        LastOfItsKey(text, p) =>
          /\ HasKey(message.tokens, SegmentKey(text, p))
          /\ DictGet(message.tokens, SegmentKey(text, p), None) =
               SegmentValue(text, p)

(***************************************************************************)
(* C8.  A segment starts only at a line start: every key of the mapping is *)
(* the key of a token that starts a line (a token inside a line, and any   *)
(* text before the first segment, give no key), and a token inside a line  *)
(* does not end the value of its segment.  Stated for the texts of one     *)
(* line with symbols of a single code point: a key can only come from a    *)
(* token at the start of the text, and its value is the rest of the text.  *)
(***************************************************************************)
C8_SegmentsStartAtLineStart ==
  (pc = "parsed" /\ OneLine(text) /\ PlainSymbols(text)) =>
     /\ Keys(message.tokens) \subseteq
          {SegmentKey(text, p) : p \in SegmentStarts(text)}
     /\ \A p \in SegmentStarts(text) :
          HasKey(message.tokens, SegmentKey(text, p)) =>
             DictGet(message.tokens, SegmentKey(text, p), None) =
               RestOfLine(text, p)

(***************************************************************************)
(* C9.  Every symbol of CORE_TOKENS is recognised: for every registered    *)
(* symbol s with canonical identifier c and every one-line value v, the    *)
(* text "s: v" is parsed to the mapping {c: v}.                            *)
(***************************************************************************)
C9_EverySymbolRecognised ==
  pc = "parsed" =>
    \A sym \in RegisteredSymbols : \A v \in LineValues :
       text = Segment(sym, v) =>
         message.tokens = <<<<DictGet(CORE_TOKENS, sym, None), v>>>>

OneSegmentPerLine(txt) ==
  /\ Cardinality(SegmentStarts(txt)) = Len(Lines(txt))
  /\ \A p \in SegmentStarts(txt) : PlainValue(RestOfLine(txt, p))

SegmentKeys(txt) == {SegmentKey(txt, p) : p \in SegmentStarts(txt)}

Occurrences(txt, k) == {p \in SegmentStarts(txt) : SegmentKey(txt, p) = k}

FirstOccurrence(txt, k) == Min(Occurrences(txt, k))

LastOccurrence(txt, k) ==
  CHOOSE p \in Occurrences(txt, k) : \A q \in Occurrences(txt, k) : q <= p

HasRepeatedToken(txt) ==
  \E k \in SegmentKeys(txt) : Cardinality(Occurrences(txt, k)) > 1

C11_RepeatedTokenLastValueFirstPosition ==
  (pc = "parsed" /\ OneSegmentPerLine(text) /\ HasRepeatedToken(text)) =>
     /\ IsMapping(message.tokens)
     /\ Keys(message.tokens) = SegmentKeys(text)
     /\ \A k \in SegmentKeys(text) :
          DictGet(message.tokens, k, None) =
            RestOfLine(text, LastOccurrence(text, k))
     /\ \A k1, k2 \in SegmentKeys(text) :
          KeyIndex(message.tokens, k1) < KeyIndex(message.tokens, k2) <=>
            FirstOccurrence(text, k1) < FirstOccurrence(text, k2)

(***************************************************************************)
(* C12.  Symbol collisions of the table resolve by last definition wins,   *)
(* in both directions: U+1F3AF, U+1F504 and U+1F50D resolve to /goal,      *)
(* /transform and /introspect; the overridden identifiers /context,        *)
(* /compose, /ongoing and /zoom have no symbol; and for every canonical    *)
(* identifier c that has a symbol s, s resolves back to c.  Stated of the  *)
(* two tables, of the parsing of a segment of a collided symbol and of the *)
(* formatting of an entry in symbol notation.                              *)
(***************************************************************************)
goal == <<"/", "g", "o", "a", "l">>

transform == <<"/", "t", "r", "a", "n", "s", "f", "o", "r", "m">>

introspect == <<"/", "i", "n", "t", "r", "o", "s", "p", "e", "c", "t">>

compose == <<"/", "c", "o", "m", "p", "o", "s", "e">>

ongoing == <<"/", "o", "n", "g", "o", "i", "n", "g">>

zoom == <<"/", "z", "o", "o", "m">>

\* the symbols the source defines more than once, each with the identifier
\* of its last definition
CollidedSymbols ==
  { <<<<"U+1F3AF">>, goal>>, <<<<"U+1F504">>, transform>>,
    <<<<"U+1F50D">>, introspect>> }

OverriddenIdentifiers == { context, compose, ongoing, zoom }

\* the definitions of the source that a later definition of the same
\* symbol overrides
OverriddenDefinitions ==
  {i \in 1..Len(CORE_TOKENS_display) :
     \E j \in (i + 1)..Len(CORE_TOKENS_display) :
        CORE_TOKENS_display[j][1] = CORE_TOKENS_display[i][1]}

\* the two tables
TablesResolveByLastDefinition ==
  /\ {CORE_TOKENS_display[i][2] : i \in OverriddenDefinitions} =
       OverriddenIdentifiers
  /\ {CORE_TOKENS_display[i][1] : i \in OverriddenDefinitions} =
       {cs[1] : cs \in CollidedSymbols}
  /\ \A cs \in CollidedSymbols :
       /\ DictGet(CORE_TOKENS, cs[1], None) = cs[2]
       /\ DictGet(SLASH_TO_EMOJI, cs[2], None) = cs[1]
  /\ \A c \in OverriddenIdentifiers : ~HasKey(SLASH_TO_EMOJI, c)
  /\ \A c \in Keys(SLASH_TO_EMOJI) :
       /\ HasKey(CORE_TOKENS, DictGet(SLASH_TO_EMOJI, c, None))
       /\ DictGet(CORE_TOKENS, DictGet(SLASH_TO_EMOJI, c, None), None) = c

MatchedRawTokens(txt) ==
  LET matches == token_pattern_findall(txt, 1)
  IN  {matches[i].token_raw : i \in 1..Len(matches)}

ResolveToCanonical(raw) ==
  IF raw \in RegisteredSymbols
    THEN CHOOSE c \in RegistryIdentifiers :
           \E i \in 1..Len(CORE_TOKENS) : CORE_TOKENS[i] = <<raw, c>>
    ELSE raw

IsUnrecognisedWord(k) == IsSlashWord(k) /\ k \notin RegistryIdentifiers

\* the entries of a mapping but those of unrecognised /words
WithoutUnrecognised(toks) ==
  LET keep == {i \in 1..Len(toks) : ~IsUnrecognisedWord(toks[i][1])}
      nth(n) == CHOOSE i \in keep : Cardinality({j \in keep : j < i}) = n - 1
  IN  [n \in 1..Cardinality(keep) |-> toks[nth(n)]]

C13_ResolutionTotalAndTolerant ==
  /\ pc \in {"parsed", "reparsed"} =>
       /\ Keys(message.tokens) =
            {ResolveToCanonical(raw) : raw \in MatchedRawTokens(text)}
       /\ \A raw \in MatchedRawTokens(text) :
            IsUnrecognisedWord(raw) => HasKey(message.tokens, raw)
  /\ HasBeenValidated =>
       /\ Range(ValidatedErrors) \subseteq {ErrIntent, ErrContext, WarnDeliverable}
       /\ [is_valid |-> ValidatedIsValid, errors |-> ValidatedErrors] =
            validate_message(WithoutUnrecognised(ValidatedTokens), <<>>)

C13_Witness ==
  /\ pc = "parsed"
  /\ text = <<"U+1F680", ":", " ", "x", "\n", "/", "z", "z", ":", " ", "x">>
  /\ message.tokens = <<<<act, <<"x">>>>, <<other, <<"x">>>>>>
  /\ message.validation_errors = RuleOrder

(***************************************************************************)
(* C14.  format_message emits exactly one line "<display_token>: <value>"  *)
(* per entry of the mapping, in the mapping's order, joined by line        *)
(* breaks; display_token is the registered symbol when use_emojis is true  *)
(* and the canonical key has a symbol, and the canonical key itself in     *)
(* every other case; an empty mapping yields the empty string.             *)
(***************************************************************************)
HasSymbol(c) == \E sym \in RegisteredSymbols : DictGet(CORE_TOKENS, sym, None) = c

SymbolOf(c) == CHOOSE sym \in RegisteredSymbols : DictGet(CORE_TOKENS, sym, None) = c

DisplayToken(c, emojis) == IF emojis /\ HasSymbol(c) THEN SymbolOf(c) ELSE c

EntryLine(toks, i, emojis) ==
  DisplayToken(toks[i][1], emojis) \o <<":", " ">> \o toks[i][2]

\* where the line of entry i starts in the text, one line break after each
\* line but the last
EntryStart(toks, emojis) ==
  LET start[i \in 1..(Len(toks) + 1)] ==
        IF i = 1 THEN 1
        ELSE start[i - 1] + Len(EntryLine(toks, i - 1, emojis)) + 1
  IN  start

C14_FormatOneLinePerEntry ==
  pc = "formatted" =>
    LET start == EntryStart(tokens, use_emojis)
        n == Len(tokens)
    IN  IF n = 0 THEN text = <<>>
        ELSE /\ Len(text) = start[n + 1] - 2
             /\ \A i \in 1..n :
                  /\ SubSeq(text, start[i], start[i + 1] - 2) =
                       EntryLine(tokens, i, use_emojis)
                  /\ i < n => text[start[i + 1] - 1] = "\n"

C14_Witness ==
  /\ pc = "formatted" /\ ~use_emojis
  /\ tokens = <<<<act, <<"x">>>>, <<other, <<"x">>>>>>
  /\ text = <<"/", "a", "c", "t", ":", " ", "x", "\n", "/", "z", "z", ":", " ", "x">>

(***************************************************************************)
(* C15.  After any sequence of initialize_conversation, add_message and    *)
(* process_agent_turn calls, every message of conversation_history has     *)
(* is_valid false exactly when its validation_errors hold at least one     *)
(* error-level entry (one of the two "Action requires ..." diagnostics);   *)
(* a message whose only diagnostic is the deliverable warning has is_valid *)
(* true.                                                                   *)
(***************************************************************************)
C15_IsValidIffNoErrorLevelEntry ==
  \A i \in 1..Len(conversation_history) :
     LET m == conversation_history[i]
     IN  /\ ~m.is_valid <=> ErrorCount(m.validation_errors) > 0
         /\ m.validation_errors = <<WarnDeliverable>> => m.is_valid

C15_Witness ==
  /\ Len(conversation_history) = 3
  /\ conversation_history[1].agent = "system"
  /\ conversation_history[2].validation_errors = RuleOrder
  /\ ~conversation_history[2].is_valid
  /\ conversation_history[3].agent = "GPT-4"
  /\ conversation_history[3].validation_errors = <<WarnDeliverable>>
  /\ conversation_history[3].is_valid

(***************************************************************************)
(* C16.  The message built by initialize_conversation always has is_valid  *)
(* true, empty validation_errors and, as raw_text, format_message of its   *)
(* own token mapping with use_emojis true, for every topic, participants,  *)
(* context and intent.                                                     *)
(***************************************************************************)
LastMessage == conversation_history[Len(conversation_history)]

C16_InitialMessageIsSynthesized ==
  last_call.op = "initialize_conversation" =>
    /\ LastMessage.agent = "system"
    /\ LastMessage.is_valid
    /\ LastMessage.validation_errors = <<>>
    /\ LastMessage.raw_text = format_message(LastMessage.tokens, TRUE)
    /\ \E args \in InitArguments :
         /\ DictGet(LastMessage.tokens, focus, None) = args[1]
         /\ args[3] # <<>> => DictGet(LastMessage.tokens, context, None) = args[3]
         /\ args[4] # <<>> => DictGet(LastMessage.tokens, intent, None) = args[4]

C16_Witness ==
  /\ last_call.op = "initialize_conversation"
  /\ Len(conversation_history) = 2
  /\ DictGet(LastMessage.tokens, mind, None) = <<"a", ",", " ", "b">>
  /\ DictGet(LastMessage.tokens, context, None) = <<"c">>
  /\ SubSeq(LastMessage.raw_text, 1, 9) =
       <<"U+1F9E0", ":", " ", "a", ",", " ", "b", "\n", "U+1F4DA">>

(***************************************************************************)
(* C17.  After any sequence of initialize_conversation and add_message     *)
(* calls, every key held in active_context (/context, /focus, and every    *)
(* other key it holds, such as /mind) has the value given by the most      *)
(* recent message of conversation_history that declared that key, and a    *)
(* key is absent from active_context only if no message of the history     *)
(* declared it.                                                            *)
(***************************************************************************)
\* the messages of the history that declare key k
DeclaredBy(k) ==
  {i \in 1..Len(conversation_history) : HasKey(conversation_history[i].tokens, k)}

MostRecent(k) == CHOOSE i \in DeclaredBy(k) : \A j \in DeclaredBy(k) : j <= i

C17_ContextReflectsMostRecentDeclaration ==
  /\ \A k \in Keys(active_context) :
       /\ DeclaredBy(k) # {}
       /\ DictGet(active_context, k, None) =
            DictGet(conversation_history[MostRecent(k)].tokens, k, None)
  /\ \A k \in {context, focus} :
       ~HasKey(active_context, k) => DeclaredBy(k) = {}

(***************************************************************************)
(* C18.  add_message overwrites active_context['/context'] (and likewise   *)
(* '/focus') with the value of the new message exactly when the tokens of  *)
(* the message contain that key; every entry of active_context whose key   *)
(* the new message does not declare is left unchanged, and no entry is     *)
(* ever removed by add_message.                                            *)
(***************************************************************************)
\* a step of add_message, called directly or by process_agent_turn
IsAddMessageStep ==
  /\ last_call'.op \in {"add_message", "process_agent_turn"}
  /\ Len(conversation_history') = Len(conversation_history) + 1

NewMessage == conversation_history'[Len(conversation_history')]

AddMessageFrame ==
  IsAddMessageStep =>
    /\ \A k \in {context, focus} :
         IF HasKey(NewMessage.tokens, k)
           THEN /\ HasKey(active_context', k)
                /\ DictGet(active_context', k, None) =
                     DictGet(NewMessage.tokens, k, None)
           ELSE /\ HasKey(active_context', k) <=> HasKey(active_context, k)
                /\ DictGet(active_context', k, None) =
                     DictGet(active_context, k, None)
    /\ \A k \in Keys(active_context) :
         /\ HasKey(active_context', k)
         /\ ~HasKey(NewMessage.tokens, k) =>
              DictGet(active_context', k, None) = DictGet(active_context, k, None)
    /\ Keys(active_context') \subseteq Keys(active_context) \cup {context, focus}

C18_AddMessageFrame == [][AddMessageFrame]_vars

C18_Witness ==
  /\ last_call.op = "add_message"
  /\ Len(conversation_history) = 2
  /\ conversation_history[1].agent = "system"
  /\ Keys(LastMessage.tokens) = {mind, focus}
  /\ DictGet(active_context, focus, None) = <<"f">>
  /\ DictGet(active_context, context, None) = <<"c">>
  /\ DictGet(active_context, mind, None) = <<"a", ",", " ", "b">>
  /\ Len(active_context) = 9

(***************************************************************************)
(* C19.  Idempotence on replay: calling add_message twice in a row with    *)
(* the same text leaves active_context equal, after the second call, to    *)
(* what it was after the first, for every text and every active_context.   *)
(***************************************************************************)
\* the step is a call of add_message with the text of the call before it,
\* itself a call of add_message
IsReplayStep ==
  /\ IsAddMessageStep
  /\ last_call.op \in {"add_message", "process_agent_turn"}
  /\ last_call'.text = last_call.text

C19_ReplayIsIdempotent ==
  [][IsReplayStep => active_context' = active_context]_vars

C19_Witness ==
  /\ Len(conversation_history) = 3
  /\ conversation_history[1].agent = "system"
  /\ conversation_history[2].raw_text = conversation_history[3].raw_text
  /\ Keys(LastMessage.tokens) = {context, focus}
  /\ last_call.op = "add_message"
  /\ DictGet(conversation_history[1].tokens, context, None) = <<"c">>
  /\ DictGet(active_context, context, None) = <<"d">>
  /\ DictGet(active_context, focus, None) = <<"g">>

(***************************************************************************)
(* C20.  Pure fold: two runs that start from the same active_context and   *)
(* add two sequences of messages declaring the same sticky keys (/context, *)
(* /focus) with the same values in the same order end with equal           *)
(* active_context, whatever the other tokens, the agents, the validity or  *)
(* the raw text of the messages.                                           *)
(***************************************************************************)
StickyKeys == {context, focus}

RECURSIVE StickyDeclarations(_, _)
\* the sticky keys the first n messages of a history declare, with their
\* values, in order
StickyDeclarations(history, n) ==
  IF n = 0 THEN <<>>
  ELSE LET IsSticky(item) == item[1] \in StickyKeys
       IN  StickyDeclarations(history, n - 1)
             \o SelectSeq(history[n].tokens, IsSticky)

\* dict equality: the same items, in whatever order
DictEqual(a, b) == Range(a) = Range(b)

C20_ContextDependsOnStickyDeclarationsOnly ==
  StickyDeclarations(conversation_history, Len(conversation_history)) =
  StickyDeclarations(second_history, Len(second_history))
    => DictEqual(active_context, second_context)

C20_Witness ==
  /\ Len(conversation_history) = 2 /\ Len(second_history) = 3
  /\ conversation_history[1].agent = "system"
  /\ ~conversation_history[2].is_valid
  /\ second_history[2].tokens = <<>>
  /\ second_history[3].is_valid
  /\ StickyDeclarations(conversation_history, 2) =
       StickyDeclarations(second_history, 3)
  /\ DictGet(conversation_history[1].tokens, context, None) = <<"d">>
  /\ DictGet(active_context, context, None) = <<"c">>
  /\ DictEqual(active_context, second_context)

(***************************************************************************)
(* C21.  conversation_history is append-only: initialize_conversation and  *)
(* add_message each append exactly one message at the end, and every       *)
(* message already in the history is unchanged in every field (timestamp,  *)
(* agent, agent_type, tokens, raw_text, is_valid, validation_errors) and   *)
(* keeps its position.                                                     *)
(***************************************************************************)
MessageFields ==
  {"timestamp", "agent", "agent_type", "tokens", "raw_text", "is_valid",
   "validation_errors"}

\* the step is a call of initialize_conversation or of add_message
IsAppendingCall ==
  /\ last_call'.op \in
       {"initialize_conversation", "add_message", "process_agent_turn"}
  /\ last_call'.raised = None

HistoryIsExtended ==
  /\ Len(conversation_history') >= Len(conversation_history)
  /\ \A i \in 1..Len(conversation_history) :
       /\ DOMAIN conversation_history'[i] = MessageFields
       /\ \A field \in MessageFields :
            conversation_history'[i][field] = conversation_history[i][field]

C21_HistoryIsAppendOnly ==
  [][/\ HistoryIsExtended
     /\ IsAppendingCall =>
          Len(conversation_history') = Len(conversation_history) + 1]_vars

C21_Witness ==
  /\ Len(conversation_history) = 3
  /\ conversation_history[1].agent = "Human"
  /\ conversation_history[2].agent = "system"
  /\ conversation_history[3].agent = "Claude"
  /\ \A i \in 1..3 : conversation_history[i].timestamp = i - 1

(***************************************************************************)
(* C22.  process_agent_turn called with an agent type that is not an AI    *)
(* kind (AgentType.HUMAN) raises ValueError to the caller, makes no model  *)
(* call and leaves conversation_history and active_context unchanged;      *)
(* called with GPT or CLAUDE it never raises this error and appends        *)
(* exactly one message attributed to that agent.                           *)
(***************************************************************************)
AgentTurnOutcome ==
  last_call'.op = "process_agent_turn" =>
    IF last_call'.agent_type = HUMAN
      THEN /\ last_call'.raised = "ValueError"
           /\ last_call'.model = None
           /\ conversation_history' = conversation_history
           /\ active_context' = active_context
      ELSE /\ last_call'.raised = None
           /\ last_call'.model = last_call'.agent_type
           /\ Len(conversation_history') = Len(conversation_history) + 1
           /\ SubSeq(conversation_history', 1, Len(conversation_history)) =
                conversation_history
           /\ NewMessage.agent_type = last_call'.agent_type
           /\ NewMessage.agent =
                (IF last_call'.agent_type = GPT THEN "GPT-4" ELSE "Claude")
           /\ NewMessage.raw_text = last_call'.text

C22_AgentTurnRaisesOnlyForHuman == [][AgentTurnOutcome]_vars

\* process_agent_turn(HUMAN) was called on a running conversation
C22_Witness ==
  /\ last_call.op = "process_agent_turn"
  /\ last_call.agent_type = HUMAN
  /\ last_call.raised = "ValueError"
  /\ Len(conversation_history) = 2
  /\ LastMessage.agent = "GPT-4"
  /\ LastMessage.agent_type = GPT

(***************************************************************************)
(* C28.  The active context and the initialization message do not share    *)
(* state: an add_message that overwrites /context or /focus in             *)
(* active_context leaves the tokens and the raw_text of the initialization *)
(* message stored in conversation_history unchanged, and changes the       *)
(* tokens of no other stored message.                                      *)
(***************************************************************************)
IsOverwritingStep ==
  /\ IsAddMessageStep
  /\ \E k \in StickyKeys :
       /\ HasKey(active_context, k)
       /\ DictGet(active_context', k, None) # DictGet(active_context, k, None)

StoredTokensKept ==
  \A i \in 1..Len(conversation_history) :
    /\ conversation_history'[i].tokens = conversation_history[i].tokens
    /\ conversation_history'[i].raw_text = conversation_history[i].raw_text

C28_ContextAndInitMessageShareNoState ==
  [][IsOverwritingStep => StoredTokensKept]_vars

\* the context of a conversation was overwritten after its initialization:
\* the initialization message still holds the value it was built with
C28_Witness ==
  /\ Len(conversation_history) >= 2
  /\ conversation_history[1].agent = "system"
  /\ HasKey(conversation_history[1].tokens, context)
  /\ last_call.op = "add_message"
  /\ HasKey(LastMessage.tokens, context)
  /\ DictGet(active_context, context, None) =
       DictGet(LastMessage.tokens, context, None)
  /\ DictGet(active_context, context, None) #
       DictGet(conversation_history[1].tokens, context, None)

(***************************************************************************)
(* C29.  Validation never blocks a message: every call of add_message      *)
(* appends the parsed message to conversation_history, and a message with  *)
(* is_valid = false has its /context and /focus values folded into         *)
(* active_context exactly as a valid one would: a sticky key it declares   *)
(* gets its value, a sticky key it does not declare keeps its own, and no  *)
(* other key changes.                                                      *)
(***************************************************************************)
IsAddMessageCall ==
  /\ last_call'.op \in {"add_message", "process_agent_turn"}
  /\ last_call'.raised = None

InvalidMessageIsFolded ==
  IsAddMessageCall =>
    /\ Len(conversation_history') = Len(conversation_history) + 1
    /\ NewMessage.raw_text = last_call'.text
    /\ ~NewMessage.is_valid =>
         /\ NewMessage.validation_errors # <<>>
         /\ \A k \in StickyKeys :
              DictGet(active_context', k, None) =
                (IF HasKey(NewMessage.tokens, k)
                   THEN DictGet(NewMessage.tokens, k, None)
                   ELSE DictGet(active_context, k, None))
         /\ \A k \in Keys(active_context) \cup Keys(active_context') :
              k \notin StickyKeys =>
                /\ HasKey(active_context, k) <=> HasKey(active_context', k)
                /\ DictGet(active_context', k, None) =
                     DictGet(active_context, k, None)

C29_ValidationNeverBlocks == [][InvalidMessageIsFolded]_vars

\* an invalid message that declares a context was added to a conversation
\* with another context, and its context is the active one
C29_Witness ==
  /\ Len(conversation_history) >= 2
  /\ ~LastMessage.is_valid
  /\ HasKey(LastMessage.tokens, context)
  /\ HasKey(conversation_history[1].tokens, context)
  /\ DictGet(conversation_history[1].tokens, context, None) #
       DictGet(LastMessage.tokens, context, None)
  /\ DictGet(active_context, context, None) =
       DictGet(LastMessage.tokens, context, None)

(***************************************************************************)
(* C23.  A failed model call never leaks into the engine's data: when      *)
(* get_gpt_response or get_claude_response fails (exception from the       *)
(* client, or client not configured), no message in conversation_history   *)
(* has a token key or a token value that holds the error string.           *)
(***************************************************************************)
Contains(s, part) ==
  \E i \in 0..(Len(s) - Len(part)) : SubSeq(s, i + 1, i + Len(part)) = part

HoldsErrorText(msg, e) ==
  \E i \in 1..Len(msg.tokens) :
    Contains(msg.tokens[i][1], e) \/ Contains(msg.tokens[i][2], e)

C23_FailedCallLeaksNothing ==
  \A i \in 1..Len(hyri.conversation_history) :
    model_errors[i] # NoError =>
      ~HoldsErrorText(hyri.conversation_history[i], model_errors[i])

(***************************************************************************)
(* C25.  The Colab copy of the parser enforces the same action rule as the *)
(* main parser: parse_message of hyri_colab_notebook.py returns            *)
(* is_valid = false with an error diagnostic when the message declares the *)
(* action token without a context token, exactly as it does when the       *)
(* intent token is missing, and it produces tokens only for recognised     *)
(* symbols or `/word` identifiers.                                         *)
(***************************************************************************)
ColabActionRule(msg) ==
  HasKey(msg.tokens, act) =>
    /\ ~HasKey(msg.tokens, intent) =>
         ~msg.is_valid /\ msg.validation_errors # <<>>
    /\ ~HasKey(msg.tokens, context) =>
         ~msg.is_valid /\ msg.validation_errors # <<>>

ColabTokensAreRecognised(msg) ==
  \A key \in Keys(msg.tokens) : IsSlashWord(key)

C25_ColabParserEnforcesActionRule ==
  \A i \in 1..Len(hyri.conversation_history) :
    /\ ColabActionRule(hyri.conversation_history[i])
    /\ ColabTokensAreRecognised(hyri.conversation_history[i])

(***************************************************************************)
(* C24.  Persistence round trip: for every conversation with a non-empty   *)
(* history, save_conversation succeeds and writes the messages as an       *)
(* ordered list of records with the fields timestamp, agent, agent_type,   *)
(* tokens, raw_text, is_valid, validation_errors, and a following          *)
(* load_conversation of that file restores a conversation_history and an   *)
(* active_context equal to the saved ones.                                 *)
(***************************************************************************)
SaveSucceeded ==
  /\ last_call.raised = None
  /\ file.written
  /\ file.complete
  /\ file.active_context = active_context
  /\ Len(file.messages) = Len(conversation_history)
  /\ \A i \in 1..Len(conversation_history) :
       /\ DOMAIN file.messages[i] = MessageFields
       /\ file.messages[i] = conversation_history[i]

LoadRestored ==
  /\ last_call.raised = None
  /\ file.written
  /\ file.complete
  /\ conversation_history = file.messages
  /\ active_context = file.active_context

C24_PersistenceRoundTrip ==
  /\ last_call.op = "save_conversation" /\ conversation_history # <<>>
       => SaveSucceeded
  /\ last_call.op = "load_conversation" /\ file.written
       => LoadRestored

(***************************************************************************)
(* C26.  In the command-line loop, a human message whose tokens contain    *)
(* /echo or /query triggers an automatic reply round: after the loop       *)
(* iteration, conversation_history has gained exactly three messages in    *)
(* the order human, GPT-4, Claude, and the GPT-4 message is already in the *)
(* history when the Claude reply is requested; a human message with        *)
(* neither token gains exactly one message.                                *)
(***************************************************************************)
IsTypedMessage(user_input) ==
  user_input # <<>> /\ lower(user_input) \notin Commands

Gained(n) == Len(conversation_history) = loop.start + n

HumanMsg == conversation_history[loop.start + 1]

WantsReplies(msg) == HasKey(msg.tokens, echo) \/ HasKey(msg.tokens, query)

\* the most recent message the model was shown when it was asked
LastShown == loop.context.recent[Len(loop.context.recent)]

IterationOutcome ==
  loop.pc = "input" /\ IsTypedMessage(loop.user_input) =>
    /\ Len(conversation_history) > loop.start
    /\ HumanMsg.agent = "Human"
    /\ HumanMsg.raw_text = loop.user_input
    /\ IF WantsReplies(HumanMsg)
         THEN /\ Gained(3)
              /\ conversation_history[loop.start + 2].agent = "GPT-4"
              /\ conversation_history[loop.start + 2].agent_type = GPT
              /\ conversation_history[loop.start + 3].agent = "Claude"
              /\ conversation_history[loop.start + 3].agent_type = CLAUDE
              /\ LastShown = <<"GPT-4", conversation_history[loop.start + 2].raw_text>>
         ELSE Gained(1)

ClaudeIsAskedAfterGpt ==
  loop.pc = "claude" /\ IsTypedMessage(loop.user_input) =>
    /\ Gained(2)
    /\ WantsReplies(HumanMsg)
    /\ LastMessage.agent = "GPT-4"

C26_AutomaticReplyRound == IterationOutcome /\ ClaudeIsAskedAfterGpt

\* an iteration has ended whose message held /echo: three messages gained
C26_Witness ==
  /\ loop.pc = "input"
  /\ IsTypedMessage(loop.user_input)
  /\ Gained(3)
  /\ HasKey(HumanMsg.tokens, echo)
  /\ LastMessage.agent = "Claude"
  /\ LastShown[1] = "GPT-4"

(***************************************************************************)
(* C27.  In the Streamlit application, after any sequence of the UI        *)
(* actions Set API Keys, Start Conversation, Reset Conversation and        *)
(* message sends, whenever a conversation is active (conversation_started  *)
(* is true) the engine held in the session has at least one AI client      *)
(* initialised (openai_client or anthropic_client is set).                 *)
(***************************************************************************)
HasClient(engine) ==
  engine.openai_client # None \/ engine.anthropic_client # None

====
